---- MODULE Spec2Model ----
(***************************************************************************)
(* Geometry simplification and preprocessing of the GeoJSON overlay        *)
(* scripts (preprocess_geojson.py and its near copy                        *)
(* consolidate_overlays.py): Douglas-Peucker simplification, rectangle     *)
(* reduction and coordinate truncation.                                    *)
(*                                                                         *)
(* Coordinates are integers counting micro-degrees (1e-6 degree), so that  *)
(* round(x, 5) is rounding to the nearest multiple of 10.  A point is the  *)
(* pair <<lon, lat>>; Python's point[0], point[1] are point[1], point[2].  *)
(* A geometry is the record [type, coordinates] of the GeoJSON object.     *)
(***************************************************************************)
EXTENDS Integers, Sequences, FiniteSets, TLC

VARIABLES geometry, strategy, tolerance, script, pc, simplified_geometry, truncated_geometry,
          data, layer_config, index, processed_features, consolidated_features,
          same_object,
          overlays, overlay_index, layer_index, output_files, exit_status

\* the FeatureCollection being preprocessed, its layer, and the features
\* produced so far
loop_vars == <<data, layer_config, index, processed_features, consolidated_features>>

\* the configured overlays, the position of the run in them, the overlay
\* files written and the exit status of the process
run_vars == <<overlays, overlay_index, layer_index, output_files, exit_status>>

\* everything beyond the geometry being simplified and truncated;
\* same_object records which objects of the output are objects of the input
pipeline_vars == <<loop_vars, same_object, run_vars>>

vars == <<geometry, strategy, tolerance, script, pc, simplified_geometry, truncated_geometry,
          data, layer_config, index, processed_features, consolidated_features,
          same_object,
          overlays, overlay_index, layer_index, output_files, exit_status>>

(***************************************************************************)
(* Bounds of the model.                                                    *)
(***************************************************************************)
\* longest LineString / single ring that is enumerated
MaxLen == 4
\* most rings (or lines) of an enumerated Polygon / MultiLineString
MaxRings == 2
\* most polygons of an enumerated MultiPolygon
MaxPolys == 2
\* most features of an enumerated FeatureCollection
MaxFeatures == 2

\* most overlays of an enumerated OVERLAYS
MaxOverlays == 2
\* most layers of an enumerated overlay
MaxLayers == 2

\* bits of the significand of a float (Python's have 53; coordinates here
\* have 4 bits and their products 8, so products are rounded as the
\* products of real coordinates are)
MantissaBits == 5

\* Coordinate values (micro-degrees).  None ends in the digit 5, so none is
\* a rounding tie of round(x, 5), whose direction depends on the binary
\* representation of the float.
Coords == {0, 4, 14}

Grid == Coords \X Coords

\* Tolerances in micro-degrees: the default 0.0, the configured 0.000005,
\* and the tested 0.00001 (a distance points of the grid attain exactly)
\* and 0.0001 (larger than any distance on the grid).
DefaultTolerance == 0
ConfiguredTolerance == 5
FineTolerance == 10
ModerateTolerance == 100

Tolerances == {DefaultTolerance, ConfiguredTolerance, FineTolerance, ModerateTolerance}

Scripts == {"preprocess_geojson", "consolidate_overlays"}

SeqsUpTo(S, n) == UNION {[1..k -> S] : k \in 0..n}

\* Points of the longer lines: three on one horizontal, one 4 above it, and
\* two at distance 10 and 14 from the others' lines.
LinePoints == {<<0, 0>>, <<4, 0>>, <<14, 0>>, <<0, 4>>, <<4, 14>>, <<14, 4>>}

\* Every line of up to MaxLen of these points, and every 3-point line of the grid.
Lines == SeqsUpTo(LinePoints, MaxLen) \cup [1..3 -> Grid]

ClosedLines == {l \in Lines : Len(l) >= 1 /\ l[1] = l[Len(l)]}

\* Axis-aligned rectangle rings in the order bottom-left, bottom-right,
\* top-right, top-left, bottom-left.
RectRings ==
  {<< <<x0, y0>>, <<x1, y0>>, <<x1, y1>>, <<x0, y1>>, <<x0, y0>> >> :
     <<x0, x1, y0, y1>> \in {q \in Coords \X Coords \X Coords \X Coords : q[1] <= q[2] /\ q[3] <= q[4]}}

\* Rings used as the members of multi-ring geometries.
SmallRings ==
  { <<>>,
    << <<0, 0>> >>,
    << <<4, 14>> >>,
    << <<0, 0>>, <<14, 4>> >>,
    << <<4, 4>>, <<4, 14>>, <<14, 14>>, <<4, 4>> >>,
    << <<0, 0>>, <<14, 0>>, <<4, 4>>, <<14, 14>>, <<0, 14>>, <<0, 0>> >> }

PolygonCoords ==
  SeqsUpTo(SmallRings, MaxRings) \cup {<<r>> : r \in ClosedLines \cup RectRings}

MultiPolygonCoords ==
  SeqsUpTo(SeqsUpTo(SmallRings, 1)
             \cup {<< << <<0, 4>>, <<4, 4>>, <<4, 14>>, <<0, 14>>, <<0, 4>> >>, << <<4, 4>> >> >>},
           MaxPolys)
    \cup {<<p>> : p \in PolygonCoords}

\* Points with six decimals that round(x, 5) moves: up, down, and away
\* from zero on the negative side.
SurveyPoints == {<<1123456, 2987654>>, <<-119206537, 40786944>>}

SurveyLine == << <<1123456, 2987654>>, <<-119206537, 40786944>> >>

NoGeometry == [type |-> "", coordinates |-> <<>>]

\* The empty dict {}
EmptyRecord == [k \in {} |-> k]

\* Python's None
None == [null |-> TRUE]

IsNone(value) == DOMAIN value = {"null"}

NoData == [type |-> "FeatureCollection", features |-> <<>>]

\* No object at hand is an object of the input, no feature was emitted
NothingShared == [geometry |-> FALSE, coordinates |-> FALSE, emitted |-> <<>>]

(***************************************************************************)
(* Geometry algebra.                                                       *)
(*                                                                         *)
(* A distance is kept as the square of the float the code computes, as the *)
(* fraction n / d with d > 0 (the sign of the float is kept as the sign of *)
(* n).  Squaring preserves the order of the values, and the code only ever *)
(* compares distances, so every comparison is decided exactly as the code  *)
(* decides it in real arithmetic.                                          *)
(***************************************************************************)
Abs(x) == IF x < 0 THEN -x ELSE x

SignedSquare(x) == IF x < 0 THEN -(x * x) ELSE x * x

\* a > b for two distances
DistanceGreater(a, b) == a.n * b.d > b.n * a.d

ZeroDistance == [n |-> 0, d |-> 1]

perpendicular_distance_signed(point, line_start, line_end) ==
  LET x == point[1]
      y == point[2]
      x1 == line_start[1]
      y1 == line_start[2]
      x2 == line_end[1]
      y2 == line_end[2]
  IN IF x1 = x2 /\ y1 = y2
       THEN [n |-> (x - x1) * (x - x1) + (y - y1) * (y - y1), d |-> 1]
       ELSE LET numerator == (y2 - y1) * x - (x2 - x1) * y + x2 * y1 - y2 * x1
                denominator2 == (y2 - y1) * (y2 - y1) + (x2 - x1) * (x2 - x1)
            IN [n |-> SignedSquare(numerator), d |-> denominator2]

perpendicular_distance(point, line_start, line_end) ==
  LET x == point[1]
      y == point[2]
      x1 == line_start[1]
      y1 == line_start[2]
      x2 == line_end[1]
      y2 == line_end[2]
  IN IF x1 = x2 /\ y1 = y2
       THEN [n |-> (x - x1) * (x - x1) + (y - y1) * (y - y1), d |-> 1]
       ELSE LET numerator == Abs((y2 - y1) * x - (x2 - x1) * y + x2 * y1 - y2 * x1)
                denominator2 == (y2 - y1) * (y2 - y1) + (x2 - x1) * (x2 - x1)
            IN [n |-> SignedSquare(numerator), d |-> denominator2]

(***************************************************************************)
(* Douglas-Peucker simplifier.                                             *)
(***************************************************************************)
\* The loop "for i in range(1, len(points) - 1)" from index i on, with the
\* running maximum acc = [max_distance, max_index].  Indices are Python's
\* (0-based); points[i] is points[i + 1] here.
RECURSIVE FindMaxFrom(_, _, _)
FindMaxFrom(points, i, acc) ==
  IF i >= Len(points) - 1
    THEN acc
    ELSE LET distance == perpendicular_distance(points[i + 1], points[1], points[Len(points)])
         IN IF DistanceGreater(distance, acc.max_distance)
              THEN FindMaxFrom(points, i + 1, [max_distance |-> distance, max_index |-> i])
              ELSE FindMaxFrom(points, i + 1, acc)

FindMaxFirstInterior(points) ==
  [max_distance |-> perpendicular_distance(points[2], points[1], points[Len(points)]), max_index |-> 1]

FindMax(points) == FindMaxFrom(points, 1, [max_distance |-> ZeroDistance, max_index |-> 0])

ExceedsHalfTolerance(max_distance, tol) == 4 * max_distance.n > tol * tol * max_distance.d

\* max_distance > tolerance
ExceedsTolerance(max_distance, tol) == max_distance.n > tol * tol * max_distance.d

\* left[:-1] + right
CombineDuplicated(left, right) == left \o right

CombineWrongSlice(left, right) == Tail(left) \o right

Combine(left, right) == SubSeq(left, 1, Len(left) - 1) \o right

\* [start, end]
CollapseBeforeEnd(points) == <<points[1], points[Len(points) - 1]>>

CollapseStartOnly(points) == <<points[1]>>

Collapse(points) == <<points[1], points[Len(points)]>>

LeftPartWithoutSplitPoint(points, max_index) == SubSeq(points, 1, max_index)

\* points[:max_index + 1]
LeftPart(points, max_index) == SubSeq(points, 1, max_index + 1)

\* points[max_index:]
RightPart(points, max_index) == SubSeq(points, max_index + 1, Len(points))

RECURSIVE douglas_peucker(_, _)
douglas_peucker(points, tol) ==
  IF Len(points) <= 2
    THEN points
    ELSE LET m == FindMax(points)
         IN IF ExceedsTolerance(m.max_distance, tol)
              THEN Combine(douglas_peucker(LeftPart(points, m.max_index), tol),
                           douglas_peucker(RightPart(points, m.max_index), tol))
              ELSE Collapse(points)

\* douglas_peucker(points, tol) calls itself
Recurses(points, tol) ==
  Len(points) > 2 /\ ExceedsTolerance(FindMax(points).max_distance, tol)

\* The arguments of all calls of douglas_peucker that the call on points
\* leads to, that call included
RECURSIVE Calls(_, _)
Calls(points, tol) ==
  {points} \cup
  (IF Recurses(points, tol)
     THEN Calls(LeftPart(points, FindMax(points).max_index), tol)
            \cup Calls(RightPart(points, FindMax(points).max_index), tol)
     ELSE {})

\* The number of calls of douglas_peucker that are on the stack below the
\* deepest call the call on points leads to
RECURSIVE RecursionDepth(_, _)
RecursionDepth(points, tol) ==
  IF Recurses(points, tol)
    THEN LET left == RecursionDepth(LeftPart(points, FindMax(points).max_index), tol)
             right == RecursionDepth(RightPart(points, FindMax(points).max_index), tol)
         IN 1 + (IF left > right THEN left ELSE right)
    ELSE 0

\* The positions (1-based, in points) of the points douglas_peucker keeps:
\* the same recursion, carried out on positions instead of points.
RECURSIVE KeptIndices(_, _)
KeptIndices(points, tol) ==
  IF Len(points) <= 2
    THEN [k \in 1..Len(points) |-> k]
    ELSE LET m == FindMax(points)
         IN IF ExceedsTolerance(m.max_distance, tol)
              THEN LET left == KeptIndices(SubSeq(points, 1, m.max_index + 1), tol)
                       right == KeptIndices(SubSeq(points, m.max_index + 1, Len(points)), tol)
                   IN SubSeq(left, 1, Len(left) - 1)
                        \o [k \in 1..Len(right) |-> right[k] + m.max_index]
              ELSE <<1, Len(points)>>

(***************************************************************************)
(* simplify_geometry: Douglas-Peucker per line / ring.                     *)
(***************************************************************************)
simplify_geometry_first_ring_only(g, tol) ==
  IF g.coordinates = <<>>
    THEN g
    ELSE CASE g.type = "LineString" ->
                [g EXCEPT !.coordinates = douglas_peucker(g.coordinates, tol)]
           [] g.type \in {"Polygon", "MultiLineString"} ->
                [g EXCEPT !.coordinates =
                   [r \in DOMAIN g.coordinates |->
                      IF r = 1 THEN douglas_peucker(g.coordinates[r], tol) ELSE g.coordinates[r]]]
           [] g.type = "MultiPolygon" ->
                [g EXCEPT !.coordinates =
                   [p \in DOMAIN g.coordinates |->
                      [r \in DOMAIN g.coordinates[p] |->
                         IF p = 1 THEN douglas_peucker(g.coordinates[p][r], tol)
                                  ELSE g.coordinates[p][r]]]]
           [] OTHER -> g

simplify_geometry(g, tol) ==
  IF g.coordinates = <<>>
    THEN g
    ELSE CASE g.type = "LineString" ->
                [g EXCEPT !.coordinates = douglas_peucker(g.coordinates, tol)]
           [] g.type = "Polygon" ->
                [g EXCEPT !.coordinates =
                   [r \in DOMAIN g.coordinates |-> douglas_peucker(g.coordinates[r], tol)]]
           [] g.type = "MultiLineString" ->
                [g EXCEPT !.coordinates =
                   [l \in DOMAIN g.coordinates |-> douglas_peucker(g.coordinates[l], tol)]]
           [] g.type = "MultiPolygon" ->
                [g EXCEPT !.coordinates =
                   [p \in DOMAIN g.coordinates |->
                      [r \in DOMAIN g.coordinates[p] |->
                         douglas_peucker(g.coordinates[p][r], tol)]]]
           [] OTHER -> g

(***************************************************************************)
(* Rectangle reducer.                                                      *)
(***************************************************************************)
\* all_coords after "for ring in rings: all_coords.extend(ring)"
RECURSIVE ExtendAll(_, _)
ExtendAll(all_coords, rings) ==
  IF rings = <<>> THEN all_coords ELSE ExtendAll(all_coords \o Head(rings), Tail(rings))

\* all_coords after the nested loop over the polygons of a MultiPolygon
RECURSIVE ExtendAllPolygons(_, _)
ExtendAllPolygons(all_coords, polygons) ==
  IF polygons = <<>>
    THEN all_coords
    ELSE ExtendAllPolygons(ExtendAll(all_coords, Head(polygons)), Tail(polygons))

CollectCoordsFirstRingOnly(g) ==
  IF g.type = "Polygon"
    THEN Head(g.coordinates)
    ELSE ExtendAllPolygons(<<>>, g.coordinates)

\* The coordinates simplify_to_rectangle collects from a Polygon or MultiPolygon.
CollectCoords(g) ==
  IF g.type = "Polygon"
    THEN ExtendAll(<<>>, g.coordinates)
    ELSE ExtendAllPolygons(<<>>, g.coordinates)

SetMin(S) == CHOOSE v \in S : \A w \in S : v <= w

SetMax(S) == CHOOSE v \in S : \A w \in S : v >= w

\* min(acc, v) and max(acc, v) where acc starts as float('inf') / float('-inf')
Infinite == [inf |-> TRUE, v |-> 0]

Finite(v) == [inf |-> FALSE, v |-> v]

MinInf(acc, v) == IF acc.inf \/ v < acc.v THEN Finite(v) ELSE acc

MaxInf(acc, v) == IF acc.inf \/ v > acc.v THEN Finite(v) ELSE acc

\* the loop of consolidate_overlays.py's calculate_simple_bounding_box
RECURSIVE BoxLoop(_, _)
BoxLoop(coordinates, acc) ==
  IF coordinates = <<>>
    THEN acc
    ELSE LET lon == Head(coordinates)[1]
             lat == Head(coordinates)[2]
         IN BoxLoop(Tail(coordinates),
                    [min_lon |-> MinInf(acc.min_lon, lon), max_lon |-> MaxInf(acc.max_lon, lon),
                     min_lat |-> MinInf(acc.min_lat, lat), max_lat |-> MaxInf(acc.max_lat, lat)])

RectangleUnclosed(min_lon, max_lon, min_lat, max_lat) ==
  << <<min_lon, min_lat>>, <<max_lon, min_lat>>, <<max_lon, max_lat>>, <<min_lon, max_lat>> >>

RectangleLatFromLon(min_lon, max_lon, min_lat, max_lat) ==
  << <<min_lon, min_lon>>, <<max_lon, min_lon>>, <<max_lon, max_lon>>, <<min_lon, max_lon>>,
     <<min_lon, min_lon>> >>

\* the 5 corners: bottom-left, bottom-right, top-right, top-left, bottom-left
Rectangle(min_lon, max_lon, min_lat, max_lat) ==
  << <<min_lon, min_lat>>, <<max_lon, min_lat>>, <<max_lon, max_lat>>, <<min_lon, max_lat>>,
     <<min_lon, min_lat>> >>

\* consolidate_overlays.py
co_calculate_simple_bounding_box(coordinates) ==
  LET b == BoxLoop(coordinates, [min_lon |-> Infinite, max_lon |-> Infinite,
                                 min_lat |-> Infinite, max_lat |-> Infinite])
  IN Rectangle(b.min_lon.v, b.max_lon.v, b.min_lat.v, b.max_lat.v)

pg_bounding_box_of_first_three(coordinates) ==
  IF Len(coordinates) < 3
    THEN coordinates
    ELSE Rectangle(SetMin({coordinates[i][1] : i \in 1..3}),
                   SetMax({coordinates[i][1] : i \in 1..3}),
                   SetMin({coordinates[i][2] : i \in 1..3}),
                   SetMax({coordinates[i][2] : i \in 1..3}))

\* preprocess_geojson.py
pg_calculate_simple_bounding_box(coordinates) ==
  IF Len(coordinates) < 3
    THEN coordinates
    ELSE Rectangle(SetMin({coordinates[i][1] : i \in DOMAIN coordinates}),
                   SetMax({coordinates[i][1] : i \in DOMAIN coordinates}),
                   SetMin({coordinates[i][2] : i \in DOMAIN coordinates}),
                   SetMax({coordinates[i][2] : i \in DOMAIN coordinates}))

calculate_simple_bounding_box(coordinates, s) ==
  IF s = "preprocess_geojson"
    THEN pg_calculate_simple_bounding_box(coordinates)
    ELSE co_calculate_simple_bounding_box(coordinates)

simplify_to_rectangle_unguarded(g, s) ==
  IF g.coordinates = <<>>
    THEN g
    ELSE IF g.type \notin {"Polygon", "MultiPolygon"}
      THEN g
      ELSE [type |-> "Polygon",
            coordinates |-> <<calculate_simple_bounding_box(CollectCoords(g), s)>>]

simplify_to_rectangle(g, s) ==
  IF g.coordinates = <<>>
    THEN g
    ELSE IF g.type \notin {"Polygon", "MultiPolygon"}
      THEN g
      ELSE LET all_coords == CollectCoords(g)
           IN IF Len(all_coords) < 3
                THEN g
                ELSE [type |-> "Polygon",
                      coordinates |-> <<calculate_simple_bounding_box(all_coords, s)>>]

(***************************************************************************)
(* Coordinate truncator.                                                   *)
(***************************************************************************)
\* round(v, 5): the nearest multiple of 10 micro-degrees.  (A tie, v ending
\* in 5, goes whichever way the float's binary value lies; no coordinate
\* of the model is a tie.)
round5_floor_plus_one(v) == 10 * (v \div 10 + 1)

round5_toward_zero(v) == IF v < 0 THEN -(10 * ((-v) \div 10)) ELSE 10 * (v \div 10)

round5(v) == 10 * ((v + 5) \div 10)

\* Number of array levels of a well-formed coordinates member: what the
\* test isinstance(coords[0], (int, float)) finds out at run time.
NestingDepth(type) ==
  CASE type = "Point" -> 1
    [] type \in {"LineString", "MultiPoint"} -> 2
    [] type \in {"Polygon", "MultiLineString"} -> 3
    [] type = "MultiPolygon" -> 4
    [] OTHER -> 0

\* coords[0] of an empty array raises IndexError, at whatever level
RECURSIVE truncate_coord_array_raises(_, _)
truncate_coord_array_raises(coords, depth) ==
  \/ coords = <<>>
  \/ /\ depth > 1
     /\ \E i \in DOMAIN coords : truncate_coord_array_raises(coords[i], depth - 1)

RECURSIVE truncate_coord_array_drops_last(_, _)
truncate_coord_array_drops_last(coords, depth) ==
  IF depth = 1
    THEN <<round5(coords[1]), round5(coords[2])>>
    ELSE [i \in 1..(Len(coords) - 1) |-> truncate_coord_array_drops_last(coords[i], depth - 1)]

RECURSIVE truncate_coord_array(_, _)
truncate_coord_array(coords, depth) ==
  IF depth = 1
    THEN <<round5(coords[1]), round5(coords[2])>>
    ELSE [i \in DOMAIN coords |-> truncate_coord_array(coords[i], depth - 1)]

truncate_coordinates_raises(g) ==
  /\ g.coordinates # <<>>
  /\ truncate_coord_array_raises(g.coordinates, NestingDepth(g.type))

truncate_coordinates(g) ==
  IF g.coordinates # <<>>
    THEN [g EXCEPT !.coordinates = truncate_coord_array(g.coordinates, NestingDepth(g.type))]
    ELSE g

(***************************************************************************)
(* The state machine: a geometry is handed to one of the simplification    *)
(* strategies and the result is truncated.                                 *)
(***************************************************************************)
\* A line whose two interior points are equally far (14) from the anchor, the
\* second of them at distance exactly 10 from the line of its neighbours.
TiedLine == << <<0, 0>>, <<14, 14>>, <<4, 14>>, <<14, 0>> >>

Init ==
  /\ \/ \E p \in Grid \cup SurveyPoints : geometry = [type |-> "Point", coordinates |-> p]
     \/ \E l \in Lines \cup {SurveyLine, TiedLine} : geometry = [type |-> "LineString", coordinates |-> l]
     \/ \E l \in SmallRings : geometry = [type |-> "MultiPoint", coordinates |-> l]
     \/ \E c \in PolygonCoords : geometry = [type |-> "Polygon", coordinates |-> c]
     \/ \E c \in PolygonCoords : geometry = [type |-> "MultiLineString", coordinates |-> c]
     \/ \E c \in MultiPolygonCoords : geometry = [type |-> "MultiPolygon", coordinates |-> c]
     \/ geometry = [type |-> "GeometryCollection", coordinates |-> <<>>]
  /\ strategy = "none"
  /\ tolerance = DefaultTolerance
  /\ script = "preprocess_geojson"
  /\ pc = "start"
  /\ simplified_geometry = NoGeometry
  /\ truncated_geometry = NoGeometry
  /\ data = NoData
  /\ layer_config = EmptyRecord
  /\ index = 1
  /\ processed_features = <<>>
  /\ consolidated_features = <<>>
  /\ same_object = NothingShared
  /\ overlays = <<>>
  /\ overlay_index = 1
  /\ layer_index = 1
  /\ output_files = {}
  /\ exit_status = <<>>

\* simplified_geometry = simplify_geometry(geometry, tolerance)
SimplifyGeometry ==
  /\ pc = "start"
  /\ \E tol \in Tolerances :
       /\ tolerance' = tol
       /\ simplified_geometry' = simplify_geometry(geometry, tol)
  /\ strategy' = "douglas_peucker"
  /\ pc' = "simplified"
  /\ UNCHANGED <<geometry, script, truncated_geometry>>
  /\ UNCHANGED pipeline_vars

\* simplified_geometry = simplify_to_rectangle(geometry), in either script
SimplifyToRectangle ==
  /\ pc = "start"
  /\ \E s \in Scripts :
       /\ script' = s
       /\ simplified_geometry' = simplify_to_rectangle(geometry, s)
  /\ strategy' = "rectangle"
  /\ pc' = "simplified"
  /\ UNCHANGED <<geometry, tolerance, truncated_geometry>>
  /\ UNCHANGED pipeline_vars

\* simplified_geometry = geometry
NoSimplification ==
  /\ pc = "start"
  /\ simplified_geometry' = geometry
  /\ strategy' = "none"
  /\ pc' = "simplified"
  /\ UNCHANGED <<geometry, tolerance, script, truncated_geometry>>
  /\ UNCHANGED pipeline_vars

\* truncated_geometry = truncate_coordinates(simplified_geometry)
TruncateCoordinates ==
  /\ pc = "simplified"
  /\ ~truncate_coordinates_raises(simplified_geometry)
  /\ truncated_geometry' = truncate_coordinates(simplified_geometry)
  /\ pc' = "truncated"
  /\ UNCHANGED <<geometry, strategy, tolerance, script, simplified_geometry>>
  /\ UNCHANGED pipeline_vars

\* truncate_coordinates(simplified_geometry) raises IndexError
TruncateCoordinatesRaises ==
  /\ pc = "simplified"
  /\ truncate_coordinates_raises(simplified_geometry)
  /\ pc' = "IndexError"
  /\ UNCHANGED <<geometry, strategy, tolerance, script, simplified_geometry, truncated_geometry>>
  /\ UNCHANGED pipeline_vars

Next ==
  \/ SimplifyGeometry
  \/ SimplifyToRectangle
  \/ NoSimplification
  \/ TruncateCoordinates
  \/ TruncateCoordinatesRaises

Spec == Init /\ [][Next]_vars

(***************************************************************************)
(* Feature preprocessing: preprocess_geojson(data, layer_config) of either *)
(* script, followed by the layer's part of consolidate_overlays.           *)
(*                                                                         *)
(* A dict is a function from its keys; a key the dict does not hold is not *)
(* in the function's domain.                                               *)
(***************************************************************************)
\* d.get(key, default)
Get(d, key, default) == IF key \in DOMAIN d THEN d[key] ELSE default

\* d.update(e), d[k] = v: the keys of e overwrite those of d
Update(d, e) == e @@ d

OptionalField(key, values) == {EmptyRecord} \cup {key :> v : v \in values}

\* The input features.  Properties "layer_id" and "stroke" are keys that
\* consolidate_overlays writes as well.
FeatureList ==
  << [type |-> "Feature", id |-> "gate",
      geometry |-> [type |-> "Point", coordinates |-> <<1123456, 2987654>>],
      properties |-> [name |-> "Gate"]],
     [type |-> "Feature",
      geometry |-> [type |-> "LineString", coordinates |-> << <<0, 0>>, <<4, 6>>, <<14, 4>> >>],
      properties |-> [name |-> "Road", layer_id |-> "roads"]],
     [type |-> "Feature", id |-> "a",
      geometry |-> [type |-> "Polygon",
                    coordinates |-> << << <<0, 0>>, <<14, 0>>, <<4, 4>>, <<14, 14>>, <<0, 14>>, <<0, 0>> >> >>],
      properties |-> EmptyRecord],
     [type |-> "Feature", id |-> "b",
      geometry |-> [type |-> "MultiPolygon",
                    coordinates |-> << << << <<0, 4>>, <<4, 4>>, <<4, 14>>, <<0, 14>>, <<0, 4>> >> >>,
                                       << << <<4, 0>>, <<14, 0>>, <<14, 4>>, <<4, 0>> >> >> >>]],
     [type |-> "Feature",
      geometry |-> [type |-> "MultiLineString",
                    coordinates |-> << << <<0, 0>>, <<4, 14>>, <<14, 14>> >>, << <<4, 4>>, <<14, 4>> >> >>],
      properties |-> [stroke |-> "red"]],
     [type |-> "Feature", id |-> "a",
      geometry |-> [type |-> "MultiPoint", coordinates |-> << <<0, 0>>, <<14, 4>> >>],
      properties |-> [name |-> "Markers"]],
     [type |-> "Feature", id |-> "g",
      geometry |-> [type |-> "GeometryCollection", coordinates |-> <<>>],
      properties |-> [name |-> "Mixed"]],
     [type |-> "Feature", id |-> "e",
      geometry |-> [type |-> "Polygon", coordinates |-> << <<>> >>],
      properties |-> EmptyRecord],
     [type |-> "Feature",
      geometry |-> [type |-> "Polygon", coordinates |-> << << <<0, 0>>, <<14, 4>> >> >>],
      properties |-> [name |-> "Sliver"]],
     [type |-> "Feature",
      geometry |-> [type |-> "LineString", coordinates |-> <<>>],
      properties |-> EmptyRecord] >>

\* The simplification policies of a layer: every strategy tag (an unknown
\* one included) with every tolerance, each possibly missing, and some
\* with noCompression.
Policies ==
  {a @@ b : a \in OptionalField("simplificationStrategy",
                                {"none", "douglas_peucker", "rectangle", "bounding_box"}),
            b \in OptionalField("simplificationTolerance",
                                {DefaultTolerance, ConfiguredTolerance, ModerateTolerance})}
    \cup {[simplificationStrategy |-> t, simplificationTolerance |-> ConfiguredTolerance,
           noCompression |-> TRUE] : t \in {"none", "douglas_peucker", "rectangle"}}
    \cup {[simplificationStrategy |-> "douglas_peucker", simplificationTolerance |-> ConfiguredTolerance,
           noCompression |-> FALSE],
          [simplificationStrategy |-> "rectangle", noCompression |-> FALSE]}

layer_id == "streetOutlines"

\* The layer's name, description and rendering (opacities and thickness in
\* tenths: 1.0 is 10).
Layer ==
  [name |-> "Street Outlines",
   description |-> "Main street outlines and roads",
   rendering |-> [lineColor |-> "#333333", lineOpacity |-> 10, lineThickness |-> 10, fillOpacity |-> 0]]

LayerConfigs == {Layer @@ policy : policy \in Policies}

\* The geometry types preprocess_geojson lets through, per script
AcceptedTypes(s) ==
  IF s = "preprocess_geojson"
    THEN {"Point", "LineString", "Polygon", "MultiPoint", "MultiLineString", "MultiPolygon"}
    ELSE {"LineString", "Polygon", "MultiLineString", "MultiPolygon"}

no_compression == Get(layer_config, "noCompression", FALSE)

\* Features that make preprocess_geojson raise AttributeError: one whose
\* geometry is null, and (in preprocess_geojson.py, which copies the
\* properties) one whose properties are null.
BrokenFeatures ==
  << [type |-> "Feature", geometry |-> None, properties |-> EmptyRecord],
     [type |-> "Feature", id |-> "n",
      geometry |-> [type |-> "LineString", coordinates |-> << <<0, 0>>, <<4, 6>> >>],
      properties |-> None] >>

\* the feature the loop is at
feature == data.features[index]

geometry_type == Get(Get(feature, "geometry", EmptyRecord), "type", "")

PipelineInit ==
  /\ \/ \E chosen \in SeqsUpTo(DOMAIN FeatureList, MaxFeatures) :
          data = [type |-> "FeatureCollection",
                  features |-> [k \in DOMAIN chosen |-> FeatureList[chosen[k]]]]
     \/ \E chosen \in SeqsUpTo(DOMAIN FeatureList, MaxFeatures - 1), last \in DOMAIN BrokenFeatures :
          data = [type |-> "FeatureCollection",
                  features |-> [k \in DOMAIN chosen |-> FeatureList[chosen[k]]]
                                 \o <<BrokenFeatures[last]>>]
  /\ layer_config \in LayerConfigs
  /\ script \in Scripts
  /\ strategy = Get(layer_config, "simplificationStrategy", "none")
  /\ tolerance = Get(layer_config, "simplificationTolerance", DefaultTolerance)
  /\ index = 1
  /\ processed_features = <<>>
  /\ consolidated_features = <<>>
  /\ same_object = NothingShared
  /\ overlays = <<>>
  /\ overlay_index = 1
  /\ layer_index = 1
  /\ output_files = {}
  /\ exit_status = <<>>
  /\ pc = "filter"
  /\ geometry = NoGeometry
  /\ simplified_geometry = NoGeometry
  /\ truncated_geometry = NoGeometry

\* feature.get('geometry', {}).get('type', '')
TypeOf(f) == Get(Get(f, "geometry", EmptyRecord), "type", "")

\* Object identity of results.  simplify_geometry returns the object it
\* was given when the coordinates are empty, otherwise a copy of it
simplify_geometry_returns_argument(g) == g.coordinates = <<>>

\* ... and the copy holds the list it was given when the type is none of
\* the four it simplifies, or when douglas_peucker returns points itself
simplify_geometry_keeps_coordinates(g) ==
  \/ g.coordinates = <<>>
  \/ g.type \notin {"LineString", "Polygon", "MultiLineString", "MultiPolygon"}
  \/ g.type = "LineString" /\ Len(g.coordinates) <= 2

\* simplify_to_rectangle returns the object it was given in its three
\* early returns, otherwise a new dict
simplify_to_rectangle_returns_argument(g) ==
  \/ g.coordinates = <<>>
  \/ g.type \notin {"Polygon", "MultiPolygon"}
  \/ Len(CollectCoords(g)) < 3

\* truncate_coordinates always returns geometry.copy()
truncate_coordinates_returns_argument(g) == FALSE

\* ... which holds the list it was given when that is empty
truncate_coordinates_keeps_coordinates(g) == g.coordinates = <<>>

\* the geometry type is one the script lets through
FeatureAccepted ==
  /\ pc = "filter"
  /\ index <= Len(data.features)
  /\ ~IsNone(Get(feature, "geometry", EmptyRecord))
  /\ geometry_type \in AcceptedTypes(script)
  /\ geometry' = feature.geometry
  /\ pc' = "accepted"
  /\ UNCHANGED <<strategy, tolerance, script, simplified_geometry, truncated_geometry>>
  /\ UNCHANGED pipeline_vars

\* continue: the feature is left out
FeatureSkipped ==
  /\ pc = "filter"
  /\ index <= Len(data.features)
  /\ ~IsNone(Get(feature, "geometry", EmptyRecord))
  /\ geometry_type \notin AcceptedTypes(script)
  /\ geometry' = Get(feature, "geometry", EmptyRecord)
  /\ index' = index + 1
  /\ UNCHANGED <<strategy, tolerance, script, pc, simplified_geometry, truncated_geometry>>
  /\ UNCHANGED <<data, layer_config, processed_features, consolidated_features, same_object, run_vars>>

\* feature.get('geometry', {}) is None: .get raises AttributeError, which
\* leaves preprocess_geojson
FeatureGeometryRaises ==
  /\ pc = "filter"
  /\ index <= Len(data.features)
  /\ IsNone(Get(feature, "geometry", EmptyRecord))
  /\ pc' = "AttributeError"
  /\ UNCHANGED <<geometry, strategy, tolerance, script, simplified_geometry, truncated_geometry>>
  /\ UNCHANGED pipeline_vars

FeatureNoCompressionIgnored ==
  /\ pc = "accepted"
  /\ no_compression
  /\ simplified_geometry' =
       IF strategy = "rectangle" /\ geometry.type \in {"Polygon", "MultiPolygon"}
         THEN simplify_to_rectangle(geometry, script)
         ELSE IF strategy = "douglas_peucker" /\ tolerance > 0
           THEN simplify_geometry(geometry, tolerance)
           ELSE geometry
  /\ pc' = "simplified"
  /\ same_object' = [same_object EXCEPT !.geometry = FALSE,
                                         !.coordinates = FALSE]
  /\ UNCHANGED <<geometry, strategy, tolerance, script, truncated_geometry>>
  /\ UNCHANGED <<loop_vars, run_vars>>

\* if no_compression: simplified_geometry = geometry
FeatureNoCompression ==
  /\ pc = "accepted"
  /\ no_compression
  /\ simplified_geometry' = geometry
  /\ pc' = "simplified"
  /\ same_object' = [same_object EXCEPT !.geometry = TRUE,
                                         !.coordinates = TRUE]
  /\ UNCHANGED <<geometry, strategy, tolerance, script, truncated_geometry>>
  /\ UNCHANGED <<loop_vars, run_vars>>

\* elif strategy == "rectangle" and the type is Polygon or MultiPolygon
FeatureRectangle ==
  /\ pc = "accepted"
  /\ ~no_compression
  /\ strategy = "rectangle" /\ geometry.type \in {"Polygon", "MultiPolygon"}
  /\ simplified_geometry' = simplify_to_rectangle(geometry, script)
  /\ pc' = "simplified"
  /\ same_object' = [same_object EXCEPT !.geometry = simplify_to_rectangle_returns_argument(geometry),
                                         !.coordinates = simplify_to_rectangle_returns_argument(geometry)]
  /\ UNCHANGED <<geometry, strategy, tolerance, script, truncated_geometry>>
  /\ UNCHANGED <<loop_vars, run_vars>>

FeatureDouglasPeuckerOnTruncated ==
  /\ pc = "accepted"
  /\ ~no_compression
  /\ ~(strategy = "rectangle" /\ geometry.type \in {"Polygon", "MultiPolygon"})
  /\ strategy = "douglas_peucker" /\ tolerance > 0
  /\ simplified_geometry' = simplify_geometry(truncate_coordinates(geometry), tolerance)
  /\ pc' = "simplified"
  /\ same_object' = [same_object EXCEPT !.geometry = FALSE,
                                         !.coordinates = FALSE]
  /\ UNCHANGED <<geometry, strategy, tolerance, script, truncated_geometry>>
  /\ UNCHANGED <<loop_vars, run_vars>>

\* elif strategy == "douglas_peucker" and tolerance > 0
FeatureDouglasPeucker ==
  /\ pc = "accepted"
  /\ ~no_compression
  /\ ~(strategy = "rectangle" /\ geometry.type \in {"Polygon", "MultiPolygon"})
  /\ strategy = "douglas_peucker" /\ tolerance > 0
  /\ simplified_geometry' = simplify_geometry(geometry, tolerance)
  /\ pc' = "simplified"
  /\ same_object' = [same_object EXCEPT !.geometry = simplify_geometry_returns_argument(geometry),
                                         !.coordinates = simplify_geometry_keeps_coordinates(geometry)]
  /\ UNCHANGED <<geometry, strategy, tolerance, script, truncated_geometry>>
  /\ UNCHANGED <<loop_vars, run_vars>>

\* else: simplified_geometry = geometry
FeaturePassThrough ==
  /\ pc = "accepted"
  /\ ~no_compression
  /\ ~(strategy = "rectangle" /\ geometry.type \in {"Polygon", "MultiPolygon"})
  /\ ~(strategy = "douglas_peucker" /\ tolerance > 0)
  /\ simplified_geometry' = geometry
  /\ pc' = "simplified"
  /\ same_object' = [same_object EXCEPT !.geometry = TRUE,
                                         !.coordinates = TRUE]
  /\ UNCHANGED <<geometry, strategy, tolerance, script, truncated_geometry>>
  /\ UNCHANGED <<loop_vars, run_vars>>

\* truncated_geometry = truncate_coordinates(simplified_geometry)
FeatureTruncated ==
  /\ pc = "simplified"
  /\ ~truncate_coordinates_raises(simplified_geometry)
  /\ truncated_geometry' = truncate_coordinates(simplified_geometry)
  /\ same_object' =
       [same_object EXCEPT
          !.geometry = @ /\ truncate_coordinates_returns_argument(simplified_geometry),
          !.coordinates = @ /\ truncate_coordinates_keeps_coordinates(simplified_geometry)]
  \* truncated_geometry['coordinates'] = ... is an assignment into the
  \* object truncate_coordinates returns
  /\ data' = IF same_object'.geometry /\ simplified_geometry.coordinates # <<>>
               THEN [data EXCEPT !.features[index].geometry = truncated_geometry']
               ELSE data
  /\ pc' = "truncated"
  /\ UNCHANGED <<geometry, strategy, tolerance, script, simplified_geometry>>
  /\ UNCHANGED <<layer_config, index, processed_features, consolidated_features, run_vars>>

\* truncate_coordinates raises IndexError, which leaves preprocess_geojson
FeatureTruncateRaises ==
  /\ pc = "simplified"
  /\ truncate_coordinates_raises(simplified_geometry)
  /\ pc' = "IndexError"
  /\ UNCHANGED <<geometry, strategy, tolerance, script, simplified_geometry, truncated_geometry>>
  /\ UNCHANGED pipeline_vars

\* properties of the processed feature: a copy of the feature's in
\* preprocess_geojson.py, {} in consolidate_overlays.py
ShapedProperties(f, s) ==
  IF s = "preprocess_geojson" THEN Get(f, "properties", EmptyRecord) ELSE EmptyRecord

ProcessedFeatureWithoutId(f, g, s) ==
  [type |-> "Feature", geometry |-> g, properties |-> ShapedProperties(f, s)]

\* processed_feature, with the feature's id when it has one
ProcessedFeature(f, g, s) ==
  IF "id" \in DOMAIN f
    THEN ("id" :> f.id) @@ [type |-> "Feature", geometry |-> g, properties |-> ShapedProperties(f, s)]
    ELSE [type |-> "Feature", geometry |-> g, properties |-> ShapedProperties(f, s)]

properties_shared_without_copy(f, s) == s = "preprocess_geojson" /\ "properties" \in DOMAIN f

\* The properties of the processed feature are the input feature's
\* properties object: never, they are its .copy() in preprocess_geojson.py
\* and a new {} in consolidate_overlays.py
properties_shared(f, s) == FALSE

\* Which objects of the feature about to be emitted are objects of the
\* input feature
EmittedObjects ==
  [geometry |-> same_object.geometry,
   coordinates |-> same_object.coordinates,
   properties |-> properties_shared(feature, script)]

\* feature.get('properties', {}).copy() raises AttributeError
properties_copy_raises(f, s) ==
  s = "preprocess_geojson" /\ IsNone(Get(f, "properties", EmptyRecord))

\* the AttributeError leaves preprocess_geojson
FeaturePropertiesRaise ==
  /\ pc = "truncated"
  /\ properties_copy_raises(feature, script)
  /\ pc' = "AttributeError"
  /\ UNCHANGED <<geometry, strategy, tolerance, script, simplified_geometry, truncated_geometry>>
  /\ UNCHANGED pipeline_vars

FeatureAppendedInFront ==
  /\ pc = "truncated"
  /\ ~properties_copy_raises(feature, script)
  /\ processed_features' = <<ProcessedFeature(feature, truncated_geometry, script)>> \o processed_features
  /\ same_object' = [same_object EXCEPT !.emitted = <<EmittedObjects>> \o @]
  /\ index' = index + 1
  /\ pc' = "filter"
  /\ UNCHANGED <<geometry, strategy, tolerance, script, simplified_geometry, truncated_geometry>>
  /\ UNCHANGED <<data, layer_config, consolidated_features, run_vars>>

\* processed_features.append(processed_feature)
FeatureAppended ==
  /\ pc = "truncated"
  /\ ~properties_copy_raises(feature, script)
  /\ processed_features' = Append(processed_features, ProcessedFeature(feature, truncated_geometry, script))
  /\ same_object' = [same_object EXCEPT !.emitted = Append(@, EmittedObjects)]
  /\ index' = index + 1
  /\ pc' = "filter"
  /\ UNCHANGED <<geometry, strategy, tolerance, script, simplified_geometry, truncated_geometry>>
  /\ UNCHANGED <<data, layer_config, consolidated_features, run_vars>>

\* the loop is over: return the FeatureCollection of processed_features
ReturnFeatureCollection ==
  /\ pc = "filter"
  /\ index > Len(data.features)
  /\ pc' = "returned"
  /\ UNCHANGED <<geometry, strategy, tolerance, script, simplified_geometry, truncated_geometry>>
  /\ UNCHANGED pipeline_vars

\* convert_rendering_to_geojson_style(rendering_config)
convert_rendering_to_geojson_style(rendering_config) ==
  LET stroke == IF "lineColor" \in DOMAIN rendering_config
                  THEN "stroke" :> rendering_config.lineColor ELSE EmptyRecord
      stroke_opacity == IF "lineOpacity" \in DOMAIN rendering_config
                          THEN "stroke-opacity" :> rendering_config.lineOpacity ELSE EmptyRecord
      stroke_width == IF "lineThickness" \in DOMAIN rendering_config
                        THEN "stroke-width" :> rendering_config.lineThickness ELSE EmptyRecord
      fill_opacity == IF "fillOpacity" \in DOMAIN rendering_config
                        THEN "fill-opacity" :> rendering_config.fillOpacity ELSE EmptyRecord
      fill == IF "fillOpacity" \in DOMAIN rendering_config
                THEN IF rendering_config.fillOpacity > 0 /\ "lineColor" \in DOMAIN rendering_config
                       THEN "fill" :> rendering_config.lineColor
                       ELSE IF rendering_config.fillOpacity = 0
                              THEN "fill" :> "#000000" ELSE EmptyRecord
                ELSE EmptyRecord
      marker_color == IF "lineColor" \in DOMAIN rendering_config
                        THEN "marker-color" :> rendering_config.lineColor ELSE EmptyRecord
      thickness == Get(rendering_config, "lineThickness", 10)
      marker_size == "marker-size" :> (IF thickness <= 10 THEN "small"
                                       ELSE IF thickness <= 20 THEN "medium" ELSE "large")
  IN stroke @@ stroke_opacity @@ stroke_width @@ fill_opacity @@ fill @@ marker_color
       @@ marker_size @@ ("visible" :> TRUE)

ConsolidatedFeatureOriginalWins(f, id, config) ==
  Update(f, [properties |->
               Update(Update([layer_id |-> id, layer_name |-> config.name,
                              description |-> config.description],
                             convert_rendering_to_geojson_style(config.rendering)),
                      Get(f, "properties", EmptyRecord))])

\* The feature after consolidate_overlays has written the layer metadata
\* and the style into its properties
ConsolidatedFeature(f, id, config) ==
  Update(f, [properties |->
               Update(Update(Get(f, "properties", EmptyRecord),
                             [layer_id |-> id, layer_name |-> config.name,
                              description |-> config.description]),
                      convert_rendering_to_geojson_style(config.rendering))])

\* The position in data['features'] of the k-th feature that was emitted
AcceptedIndex(k) ==
  CHOOSE i \in DOMAIN data.features :
    /\ TypeOf(data.features[i]) \in AcceptedTypes(script)
    /\ Cardinality({j \in 1..i : TypeOf(data.features[j]) \in AcceptedTypes(script)}) = k

\* consolidate_overlays: the loop over the features of the layer, which
\* are the objects of processed_features
ConsolidateLayer ==
  /\ pc = "returned"
  /\ processed_features' =
       [k \in DOMAIN processed_features |-> ConsolidatedFeature(processed_features[k], layer_id, layer_config)]
  /\ consolidated_features' = consolidated_features \o processed_features'
  \* a write into a properties object that is an input feature's reaches
  \* the input
  /\ data' = [data EXCEPT !.features =
                [i \in DOMAIN data.features |->
                   IF \E k \in DOMAIN same_object.emitted :
                        same_object.emitted[k].properties /\ AcceptedIndex(k) = i
                     THEN Update(data.features[i],
                                 [properties |->
                                    ConsolidatedFeature(data.features[i], layer_id, layer_config).properties])
                     ELSE data.features[i]]]
  /\ pc' = "consolidated"
  /\ UNCHANGED <<geometry, strategy, tolerance, script, simplified_geometry, truncated_geometry>>
  /\ UNCHANGED <<layer_config, index, same_object, run_vars>>

\* The files an overlay's consolidated collection is written to.
\* preprocess_geojson.py also writes a preview, unless generate_svg_preview
\* finds no coordinates in the file just written.
OverlayFiles(s, o, features) ==
  {<<o, "geojson">>} \cup
  (IF s = "preprocess_geojson" /\ features # <<>> THEN {<<o, "svg">>} ELSE {})

\* What a handler inside the loop would do: go on with the next feature
ExceptionSkipsFeature ==
  /\ pc \in {"IndexError", "AttributeError"}
  /\ index' = index + 1
  /\ pc' = "filter"
  /\ UNCHANGED <<geometry, strategy, tolerance, script, simplified_geometry, truncated_geometry>>
  /\ UNCHANGED <<data, layer_config, processed_features, consolidated_features, same_object, run_vars>>

\* load_and_preprocess_geojson: except Exception: return None.  The
\* features processed so far are lost with preprocess_geojson's frame.
ExceptionReturnsNone ==
  /\ pc \in {"IndexError", "AttributeError"}
  /\ processed_features' = <<>>
  /\ pc' = "None"
  /\ UNCHANGED <<geometry, strategy, tolerance, script, simplified_geometry, truncated_geometry>>
  /\ UNCHANGED <<data, layer_config, index, consolidated_features, same_object, run_vars>>

\* consolidate_overlays: if not geojson_data: exit(1)
LayerFailed ==
  /\ pc = "None"
  /\ exit_status' = <<1>>
  /\ pc' = "exited"
  /\ UNCHANGED <<geometry, strategy, tolerance, script, simplified_geometry, truncated_geometry>>
  /\ UNCHANGED <<loop_vars, same_object, overlays, overlay_index, layer_index, output_files>>

\* consolidate_overlays after the overlay's only layer: the overlay's file
\* is written, the loop over OVERLAYS ends and __main__ exits with status 0
OverlayWritten ==
  /\ pc = "consolidated"
  /\ output_files' = output_files \cup OverlayFiles(script, overlay_index, consolidated_features)
  /\ exit_status' = <<0>>
  /\ pc' = "exited"
  /\ UNCHANGED <<geometry, strategy, tolerance, script, simplified_geometry, truncated_geometry>>
  /\ UNCHANGED <<loop_vars, same_object, overlays, overlay_index, layer_index>>

PipelineNext ==
  \/ FeatureAccepted
  \/ FeatureSkipped
  \/ FeatureGeometryRaises
  \/ FeaturePropertiesRaise
  \/ ExceptionReturnsNone
  \/ LayerFailed
  \/ OverlayWritten
  \/ FeatureNoCompression
  \/ FeatureRectangle
  \/ FeatureDouglasPeucker
  \/ FeaturePassThrough
  \/ FeatureTruncated
  \/ FeatureTruncateRaises
  \/ FeatureAppended
  \/ ReturnFeatureCollection
  \/ ConsolidateLayer

Pipeline == PipelineInit /\ [][PipelineNext]_vars

(***************************************************************************)
(* The run of a script over OVERLAYS: __main__ and the loops of            *)
(* consolidate_overlays over the overlays and their layers.  An overlay is *)
(* the number of its layers; what a layer's input file holds is read when  *)
(* the layer is loaded.                                                    *)
(***************************************************************************)
\* An input file: whether it exists, the type of the document in it and the
\* number of its features, how many of them preprocess_geojson accepts and
\* whether one of them makes it raise.
NoFile == [exists |-> FALSE, type |-> "", features |-> 0, accepted |-> 0, raises |-> FALSE]

InputFiles ==
  {NoFile} \cup
  {file \in [exists : {TRUE}, type : {"FeatureCollection", "Feature"},
             features : 0..MaxFeatures, accepted : 0..MaxFeatures, raises : BOOLEAN] :
     file.accepted <= file.features}

\* What load_and_preprocess_geojson returns for a file: None, or the
\* FeatureCollection of the accepted features
load_and_preprocess_geojson(file) ==
  IF ~file.exists THEN None
  ELSE IF file.type # "FeatureCollection" THEN None
  ELSE IF file.features = 0 THEN None
  ELSE IF file.raises THEN None
  ELSE [type |-> "FeatureCollection",
        features |-> [k \in 1..file.accepted |-> [type |-> "Feature"]]]

RunInit ==
  /\ overlays \in SeqsUpTo(1..MaxLayers, MaxOverlays) \ {<<>>}
  /\ script \in Scripts
  /\ overlay_index = 1
  /\ layer_index = 1
  /\ output_files = {}
  /\ exit_status = <<>>
  /\ pc = "main"
  /\ data = NoData
  /\ layer_config = Layer
  /\ strategy = "none"
  /\ tolerance = DefaultTolerance
  /\ index = 1
  /\ processed_features = <<>>
  /\ consolidated_features = <<>>
  /\ same_object = NothingShared
  /\ geometry = NoGeometry
  /\ simplified_geometry = NoGeometry
  /\ truncated_geometry = NoGeometry

\* __main__: the check that all input files exist, before anything is done
CheckInputFiles ==
  /\ pc = "main"
  /\ \E missing_files \in BOOLEAN :
       IF missing_files
         THEN exit_status' = <<1>> /\ pc' = "exited"
         ELSE exit_status' = exit_status /\ pc' = "overlay"
  /\ UNCHANGED <<geometry, strategy, tolerance, script, simplified_geometry, truncated_geometry>>
  /\ UNCHANGED <<loop_vars, same_object, overlays, overlay_index, layer_index, output_files>>

\* for overlay_config in OVERLAYS: a new consolidated_geojson
StartOverlay ==
  /\ pc = "overlay"
  /\ overlay_index <= Len(overlays)
  /\ consolidated_features' = <<>>
  /\ layer_index' = 1
  /\ pc' = "layer"
  /\ UNCHANGED <<geometry, strategy, tolerance, script, simplified_geometry, truncated_geometry>>
  /\ UNCHANGED <<data, layer_config, index, processed_features, same_object>>
  /\ UNCHANGED <<overlays, overlay_index, output_files, exit_status>>

\* for layer_id, layer_config in layers.items(): the file at inputFile is
\* read
LoadLayer ==
  /\ pc = "layer"
  /\ layer_index <= overlays[overlay_index]
  /\ data' \in InputFiles
  /\ pc' = "loaded"
  /\ UNCHANGED <<geometry, strategy, tolerance, script, simplified_geometry, truncated_geometry>>
  /\ UNCHANGED <<layer_config, index, processed_features, consolidated_features, same_object, run_vars>>

\* if not geojson_data: exit(1)
LoadFailed ==
  /\ pc = "loaded"
  /\ load_and_preprocess_geojson(data) = None
  /\ exit_status' = <<1>>
  /\ pc' = "exited"
  /\ UNCHANGED <<geometry, strategy, tolerance, script, simplified_geometry, truncated_geometry>>
  /\ UNCHANGED <<loop_vars, same_object, overlays, overlay_index, layer_index, output_files>>

\* the features of the layer get the layer's id and go to the consolidated
\* collection
LayerLoaded ==
  /\ pc = "loaded"
  /\ load_and_preprocess_geojson(data) # None
  /\ LET geojson_data == load_and_preprocess_geojson(data)
     IN  consolidated_features' =
           consolidated_features \o
             [k \in DOMAIN geojson_data.features |->
                Update(geojson_data.features[k], [properties |-> [layer_id |-> layer_index]])]
  /\ layer_index' = layer_index + 1
  /\ pc' = "layer"
  /\ UNCHANGED <<geometry, strategy, tolerance, script, simplified_geometry, truncated_geometry>>
  /\ UNCHANGED <<data, layer_config, index, processed_features, same_object>>
  /\ UNCHANGED <<overlays, overlay_index, output_files, exit_status>>

\* after the last layer of the overlay: the overlay's file is written and
\* the loop goes to the next overlay
WriteOverlayFile ==
  /\ pc = "layer"
  /\ layer_index > overlays[overlay_index]
  /\ output_files' = output_files \cup OverlayFiles(script, overlay_index, consolidated_features)
  /\ overlay_index' = overlay_index + 1
  /\ pc' = "overlay"
  /\ UNCHANGED <<geometry, strategy, tolerance, script, simplified_geometry, truncated_geometry>>
  /\ UNCHANGED <<loop_vars, same_object, overlays, layer_index, exit_status>>

\* consolidate_overlays returns and __main__ exits with status 0
RunCompleted ==
  /\ pc = "overlay"
  /\ overlay_index > Len(overlays)
  /\ exit_status' = <<0>>
  /\ pc' = "exited"
  /\ UNCHANGED <<geometry, strategy, tolerance, script, simplified_geometry, truncated_geometry>>
  /\ UNCHANGED <<loop_vars, same_object, overlays, overlay_index, layer_index, output_files>>

RunNext ==
  \/ CheckInputFiles
  \/ StartOverlay
  \/ LoadLayer
  \/ LoadFailed
  \/ LayerLoaded
  \/ WriteOverlayFile
  \/ RunCompleted

Run == RunInit /\ [][RunNext]_vars

(***************************************************************************)
(* perpendicular_distance in floating point.  The coordinates are          *)
(* integers, so every term of the numerator is an integer, rounded to the  *)
(* nearest float after each operation (ties to even), in the order Python  *)
(* evaluates the expression.  A distance is 0.0 exactly when its numerator *)
(* is; douglas_peucker at tolerance 0.0 keeps the interior point of a      *)
(* 3-point line exactly when the distance is not 0.0.                      *)
(***************************************************************************)
RECURSIVE BitLength(_)
BitLength(v) == IF v = 0 THEN 0 ELSE 1 + BitLength(v \div 2)

RECURSIVE PowerOfTwo(_)
PowerOfTwo(e) == IF e = 0 THEN 1 ELSE 2 * PowerOfTwo(e - 1)

\* The float nearest to the integer v
RoundToFloat(v) ==
  LET magnitude == Abs(v)
      unit == IF BitLength(magnitude) > MantissaBits
                THEN PowerOfTwo(BitLength(magnitude) - MantissaBits)
                ELSE 1
      quotient == magnitude \div unit
      remainder == magnitude % unit
      rounded == IF 2 * remainder > unit \/ (2 * remainder = unit /\ quotient % 2 = 1)
                   THEN quotient + 1
                   ELSE quotient
  IN IF v < 0 THEN -(rounded * unit) ELSE rounded * unit

\* abs((y2 - y1) * x - (x2 - x1) * y + x2 * y1 - y2 * x1)
numerator(point, line_start, line_end) ==
  LET x == point[1]
      y == point[2]
      x1 == line_start[1]
      y1 == line_start[2]
      x2 == line_end[1]
      y2 == line_end[2]
      first == RoundToFloat(RoundToFloat(y2 - y1) * x)
      second == RoundToFloat(RoundToFloat(x2 - x1) * y)
      third == RoundToFloat(x2 * y1)
      fourth == RoundToFloat(y2 * x1)
  IN Abs(RoundToFloat(RoundToFloat(RoundToFloat(first - second) + third) - fourth))

\* perpendicular_distance(point, line_start, line_end) == 0.0
perpendicular_distance_is_zero(point, line_start, line_end) ==
  IF line_start = line_end
    THEN point = line_start
    ELSE numerator(point, line_start, line_end) = 0

\* douglas_peucker(points, 0.0) for a line of 3 points
douglas_peucker_of_three(points) ==
  IF perpendicular_distance_is_zero(points[2], points[1], points[3])
    THEN <<points[1], points[3]>>
    ELSE points

NumericInit ==
  /\ \E l \in [1..3 -> Grid] : geometry = [type |-> "LineString", coordinates |-> l]
  /\ script \in Scripts
  /\ strategy = "douglas_peucker"
  /\ tolerance = DefaultTolerance
  /\ pc = "start"
  /\ simplified_geometry = NoGeometry
  /\ truncated_geometry = NoGeometry
  /\ data = NoData
  /\ layer_config = EmptyRecord
  /\ index = 1
  /\ processed_features = <<>>
  /\ consolidated_features = <<>>
  /\ same_object = NothingShared
  /\ overlays = <<>>
  /\ overlay_index = 1
  /\ layer_index = 1
  /\ output_files = {}
  /\ exit_status = <<>>

\* simplify_geometry on a LineString of 3 points at the default tolerance
SimplifyLineOfThree ==
  /\ pc = "start"
  /\ simplified_geometry' = [geometry EXCEPT !.coordinates = douglas_peucker_of_three(geometry.coordinates)]
  /\ pc' = "simplified"
  /\ UNCHANGED <<geometry, strategy, tolerance, script, truncated_geometry>>
  /\ UNCHANGED pipeline_vars

NumericNext == SimplifyLineOfThree

Numeric == NumericInit /\ [][NumericNext]_vars

(***************************************************************************)
(* Vocabulary of the properties.                                           *)
(***************************************************************************)
\* The point sequences of a geometry that simplify_geometry hands to
\* douglas_peucker, in order.
Rings(g) ==
  CASE g.type = "LineString" -> <<g.coordinates>>
    [] g.type \in {"Polygon", "MultiLineString"} -> g.coordinates
    [] g.type = "MultiPolygon" -> ExtendAll(<<>>, g.coordinates)
    [] OTHER -> <<>>

DouglasPeuckerApplied == pc # "start" /\ strategy = "douglas_peucker"

RectangleApplied == pc # "start" /\ strategy = "rectangle"

IsPolygonal(g) == g.type \in {"Polygon", "MultiPolygon"}

IsClosed(ring) == Len(ring) >= 1 /\ ring[1] = ring[Len(ring)]

\* out can be obtained from in by deleting elements
RECURSIVE IsSubsequence(_, _)
IsSubsequence(out, in) ==
  IF out = <<>> THEN TRUE
  ELSE IF in = <<>> THEN FALSE
  ELSE IF Head(out) = Head(in) THEN IsSubsequence(Tail(out), Tail(in))
  ELSE IsSubsequence(out, Tail(in))

\* p lies on the anchor line through a and b; when the anchor is the single
\* point a = b, p is that point.
OnAnchorLine(p, a, b) ==
  IF a = b
    THEN p = a
    ELSE (b[2] - a[2]) * (p[1] - a[1]) = (b[1] - a[1]) * (p[2] - a[2])

NoCollinearInterior(points) ==
  \A i, k, j \in DOMAIN points :
     i < k /\ k < j => ~OnAnchorLine(points[k], points[i], points[j])

RECURSIVE SumOfLengths(_)
SumOfLengths(rings) == IF rings = <<>> THEN 0 ELSE Len(Head(rings)) + SumOfLengths(Tail(rings))

RECURSIVE SumOfPolygons(_)
SumOfPolygons(polygons) ==
  IF polygons = <<>> THEN 0 ELSE SumOfLengths(Head(polygons)) + SumOfPolygons(Tail(polygons))

\* Number of coordinates in all rings of a Polygon or MultiPolygon
NumCoordinates(g) ==
  IF g.type = "Polygon" THEN SumOfLengths(g.coordinates) ELSE SumOfPolygons(g.coordinates)

RingPoints(ring) == {ring[k] : k \in DOMAIN ring}

PolygonPoints(polygon) == UNION {RingPoints(polygon[r]) : r \in DOMAIN polygon}

\* The coordinates of all rings of a Polygon or MultiPolygon, as a set
PointSet(g) ==
  IF g.type = "Polygon"
    THEN PolygonPoints(g.coordinates)
    ELSE UNION {PolygonPoints(g.coordinates[p]) : p \in DOMAIN g.coordinates}

\* The coordinate pairs of a coordinates member of the given nesting
\* depth, in order.
RECURSIVE Leaves(_, _)
Leaves(coords, depth) ==
  IF depth = 1 THEN <<coords>>
  ELSE IF coords = <<>> THEN <<>>
  ELSE Leaves(Head(coords), depth - 1) \o Leaves(Tail(coords), depth)

\* a and b have the same number of arrays at every level, down to pairs
RECURSIVE SameShape(_, _, _)
SameShape(a, b, depth) ==
  IF depth = 1
    THEN Len(a) = 2 /\ Len(b) = 2
    ELSE /\ Len(a) = Len(b)
         /\ \A i \in DOMAIN a : SameShape(a[i], b[i], depth - 1)

\* some array of the coordinates member, below the top level, is empty
HasNestedEmptyArray(g) ==
  /\ g.coordinates # <<>>
  /\ truncate_coord_array_raises(g.coordinates, NestingDepth(g.type))

TruncationApplied == pc = "truncated"

SameGeometry(g, h) == g.type = h.type /\ g.coordinates = h.coordinates

\* The simplification the layer's policy selects for a geometry
SelectedSimplification(g) ==
  IF no_compression THEN g
  ELSE IF strategy = "rectangle" /\ g.type \in {"Polygon", "MultiPolygon"}
    THEN simplify_to_rectangle(g, script)
  ELSE IF strategy = "douglas_peucker" /\ tolerance > 0
    THEN simplify_geometry(g, tolerance)
  ELSE g

\* The features the loop of preprocess_geojson has dealt with
FeaturesDone == SubSeq(data.features, 1, index - 1)

PreprocessReturned == pc = "returned"

AtLoopHead == pc \in {"filter", "returned"}

\* The input features whose type the script accepts, in order
AcceptedFeatures == SelectSeq(data.features, LAMBDA f : f.geometry.type \in AcceptedTypes(script))

\* The policy takes neither the rectangle nor the Douglas-Peucker branch
\* for the geometry
PassThroughPolicy(g) ==
  /\ ~(strategy = "rectangle" /\ g.type \in {"Polygon", "MultiPolygon"})
  /\ ~(strategy = "douglas_peucker" /\ tolerance > 0)

\* every coordinate component of the geometry is a multiple of 0.00001
IsTruncated(g) ==
  LET pairs == Leaves(g.coordinates, NestingDepth(g.type))
  IN \A k \in DOMAIN pairs : pairs[k][1] % 10 = 0 /\ pairs[k][2] % 10 = 0

SameId(f, h) ==
  /\ ("id" \in DOMAIN f) = ("id" \in DOMAIN h)
  /\ "id" \in DOMAIN h => f.id = h.id

LayerConsolidated == pc = "consolidated"

\* The keys consolidate_overlays writes: layer metadata and style
LayerKeys ==
  {"layer_id", "layer_name", "description"}
    \cup DOMAIN convert_rendering_to_geojson_style(layer_config.rendering)

\* The properties member of an input feature ({} when it has none)
OriginalProperties(f) == Get(f, "properties", EmptyRecord)

\* The input and output sequences of the douglas_peucker calls of the
\* simplify_geometry call that produced simplified_geometry.
In == Rings(geometry)

Out == Rings(simplified_geometry)

(***************************************************************************)
(* C1  Endpoint preservation: whenever douglas_peucker was applied, at any *)
(* tolerance, to a sequence of at least 2 points, its output starts with   *)
(* the first input point and ends with the last input point.               *)
(***************************************************************************)
C1_EndpointPreservation ==
  DouglasPeuckerApplied =>
    /\ Len(Out) = Len(In)
    /\ \A i \in DOMAIN In :
         Len(In[i]) >= 2 =>
           /\ Len(Out[i]) >= 1
           /\ Out[i][1] = In[i][1]
           /\ Out[i][Len(Out[i])] = In[i][Len(In[i])]

\* a split happened and a point was removed, between endpoints that differ
C1_Witness ==
  /\ DouglasPeuckerApplied
  /\ \E i \in DOMAIN In :
       /\ Len(In[i]) = 4
       /\ Len(Out[i]) = 3
       /\ In[i][1] # In[i][4]

(***************************************************************************)
(* C2  Subsequence guarantee: the output of douglas_peucker is the input   *)
(* with some points deleted (the remaining ones in their original order,   *)
(* the split point not repeated), so it is no longer than the input.       *)
(***************************************************************************)
C2_Subsequence ==
  DouglasPeuckerApplied =>
    /\ Len(Out) = Len(In)
    /\ \A i \in DOMAIN In :
         /\ IsSubsequence(Out[i], In[i])
         /\ Len(Out[i]) <= Len(In[i])

\* a sequence was split at a point that occurs twice in it, and shortened
C2_Witness ==
  /\ DouglasPeuckerApplied
  /\ \E i \in DOMAIN In :
       /\ Len(In[i]) = 4
       /\ In[i][2] = In[i][3]
       /\ Out[i] = <<In[i][1], In[i][2], In[i][4]>>

(***************************************************************************)
(* C3  Monotonic reduction: for tolerances t2 >= t1 the output of          *)
(* douglas_peucker at t2 is no longer than its output at t1, which is no   *)
(* longer than the input.                                                  *)
(***************************************************************************)
C3_MonotonicReduction ==
  DouglasPeuckerApplied =>
    /\ Len(Out) = Len(In)
    /\ \A i \in DOMAIN In :
         /\ Len(Out[i]) <= Len(In[i])
         /\ \A t2 \in Tolerances :
              t2 >= tolerance => Len(douglas_peucker(In[i], t2)) <= Len(Out[i])

\* three different lengths: input, output at tolerance, output at a larger one
C3_Witness ==
  /\ DouglasPeuckerApplied
  /\ \E i \in DOMAIN In :
       /\ Len(Out[i]) < Len(In[i])
       /\ \E t2 \in Tolerances :
            t2 > tolerance /\ Len(douglas_peucker(In[i], t2)) < Len(Out[i])

C5_LineAndRingShape ==
  DouglasPeuckerApplied =>
    /\ Len(Out) = Len(In)
    /\ \A i \in DOMAIN In :
         /\ Len(In[i]) >= 2 => Len(Out[i]) >= 2
         /\ IsClosed(In[i]) => IsClosed(Out[i])
    /\ pc = "truncated" =>
         LET Trunc == Rings(truncated_geometry)
         IN /\ Len(Trunc) = Len(In)
            /\ \A i \in DOMAIN In :
                 /\ Len(In[i]) >= 2 => Len(Trunc[i]) >= 2
                 /\ IsClosed(In[i]) => IsClosed(Trunc[i])

\* a closed polygon ring lost a point and was then truncated
C5_Witness ==
  /\ DouglasPeuckerApplied
  /\ pc = "truncated"
  /\ geometry.type = "Polygon"
  /\ \E i \in DOMAIN In :
       /\ IsClosed(In[i])
       /\ Len(In[i]) >= 4
       /\ Len(Out[i]) < Len(In[i])
       /\ Rings(truncated_geometry)[i] # Out[i]

(***************************************************************************)
(* C6  Simplification does not degrade a ring: a closed Polygon or         *)
(* MultiPolygon ring of at least 4 coordinates still has at least 4        *)
(* coordinates after douglas_peucker at any tolerance > 0.                 *)
(***************************************************************************)
C6_RingKeepsFourCoordinates ==
  (DouglasPeuckerApplied /\ tolerance > 0 /\ IsPolygonal(geometry)) =>
    \A i \in DOMAIN In :
       (IsClosed(In[i]) /\ Len(In[i]) >= 4) => Len(Out[i]) >= 4

\* simplified_geometry is a Polygon of one ring of 5 coordinates, first = last
IsClosedFivePointPolygon(g) ==
  /\ g.type = "Polygon"
  /\ Len(g.coordinates) = 1
  /\ Len(g.coordinates[1]) = 5
  /\ g.coordinates[1][1] = g.coordinates[1][5]

(***************************************************************************)
(* C7 as stated: for every Polygon or MultiPolygon input,                  *)
(* simplify_to_rectangle returns exactly one ring of exactly 5 coordinates *)
(* whose first coordinate equals its last.                                 *)
(***************************************************************************)
C7_Original_RectangleClosure ==
  (RectangleApplied /\ IsPolygonal(geometry)) => IsClosedFivePointPolygon(simplified_geometry)

(***************************************************************************)
(* C7 amended: for every Polygon or MultiPolygon input from whose rings at *)
(* least 3 coordinates are collected, simplify_to_rectangle (in either     *)
(* script) returns exactly one ring of exactly 5 coordinates whose first   *)
(* coordinate equals its last.                                             *)
(***************************************************************************)
C7_RectangleClosure ==
  (RectangleApplied /\ IsPolygonal(geometry) /\ NumCoordinates(geometry) >= 3) =>
    IsClosedFivePointPolygon(simplified_geometry)

\* consolidate_overlays.py reduced a MultiPolygon of several polygons
C7_Witness ==
  /\ RectangleApplied
  /\ script = "consolidate_overlays"
  /\ geometry.type = "MultiPolygon"
  /\ Len(geometry.coordinates) >= 2
  /\ NumCoordinates(geometry) >= 3
  /\ IsClosedFivePointPolygon(simplified_geometry)
  /\ simplified_geometry.coordinates[1][1] # simplified_geometry.coordinates[1][3]

\* The bounding rectangle of a set of points, in the order bottom-left,
\* bottom-right, top-right, top-left, bottom-left.
BoundingRing(S) ==
  LET minLon == SetMin({q[1] : q \in S})
      maxLon == SetMax({q[1] : q \in S})
      minLat == SetMin({q[2] : q \in S})
      maxLat == SetMax({q[2] : q \in S})
  IN << <<minLon, minLat>>, <<maxLon, minLat>>, <<maxLon, maxLat>>, <<minLon, maxLat>>,
        <<minLon, minLat>> >>

(***************************************************************************)
(* C8  With at least 3 collected coordinates simplify_to_rectangle returns *)
(* a Polygon whose single ring is [minLon,minLat], [maxLon,minLat],        *)
(* [maxLon,maxLat], [minLon,maxLat], [minLon,minLat] over the coordinates  *)
(* of all rings of all polygons (holes included); applying it again to the *)
(* result changes nothing, and a Polygon that already is such a rectangle  *)
(* ring is returned with identical coordinates.                            *)
(***************************************************************************)
C8_BoundingRectangle ==
  (RectangleApplied /\ IsPolygonal(geometry) /\ NumCoordinates(geometry) >= 3) =>
    /\ simplified_geometry.type = "Polygon"
    /\ simplified_geometry.coordinates = <<BoundingRing(PointSet(geometry))>>
    /\ simplify_to_rectangle(simplified_geometry, script).type = "Polygon"
    /\ simplify_to_rectangle(simplified_geometry, script).coordinates
         = simplified_geometry.coordinates
    /\ (geometry.type = "Polygon" /\ geometry.coordinates \in {<<r>> : r \in RectRings}) =>
         simplified_geometry.coordinates = geometry.coordinates

\* a hole reaches outside the outer ring and widens the rectangle
C8_Witness ==
  /\ RectangleApplied
  /\ geometry.type = "Polygon"
  /\ Len(geometry.coordinates) = 2
  /\ Len(geometry.coordinates[1]) >= 3
  /\ IsClosedFivePointPolygon(simplified_geometry)
  /\ simplified_geometry.coordinates[1] # BoundingRing(RingPoints(geometry.coordinates[1]))

(***************************************************************************)
(* C9  Rectangle containment: every coordinate of every ring of a Polygon  *)
(* or MultiPolygon reduced by simplify_to_rectangle lies within the        *)
(* emitted rectangle, bounds included.                                     *)
(***************************************************************************)
C9_RectangleContainment ==
  (RectangleApplied /\ IsPolygonal(geometry) /\ NumCoordinates(geometry) >= 3) =>
    /\ Len(simplified_geometry.coordinates) = 1
    /\ Len(simplified_geometry.coordinates[1]) = 5
    /\ LET rectangle == simplified_geometry.coordinates[1]
           minLon == rectangle[1][1]
           minLat == rectangle[1][2]
           maxLon == rectangle[3][1]
           maxLat == rectangle[3][2]
       IN \A q \in PointSet(geometry) :
            /\ minLon <= q[1] /\ q[1] <= maxLon
            /\ minLat <= q[2] /\ q[2] <= maxLat

\* one input coordinate lies strictly inside the rectangle, others on its bounds
C9_Witness ==
  /\ RectangleApplied
  /\ IsPolygonal(geometry)
  /\ NumCoordinates(geometry) >= 3
  /\ IsClosedFivePointPolygon(simplified_geometry)
  /\ \E q \in PointSet(geometry) :
       /\ simplified_geometry.coordinates[1][1][1] < q[1]
       /\ q[1] < simplified_geometry.coordinates[1][3][1]
       /\ simplified_geometry.coordinates[1][1][2] < q[2]
       /\ q[2] < simplified_geometry.coordinates[1][3][2]

(***************************************************************************)
(* C10  simplify_to_rectangle returns the geometry it was given (same      *)
(* type, same coordinates) when fewer than 3 coordinates are collected     *)
(* from a Polygon or MultiPolygon, empty coordinates included, and when    *)
(* the type is neither Polygon nor MultiPolygon.                           *)
(***************************************************************************)
C10_RectangleReturnsOriginal ==
  (RectangleApplied /\ (~IsPolygonal(geometry) \/ NumCoordinates(geometry) < 3)) =>
    /\ simplified_geometry.type = geometry.type
    /\ simplified_geometry.coordinates = geometry.coordinates

\* a Polygon of two rings holding 2 coordinates together came back as it was
C10_Witness ==
  /\ RectangleApplied
  /\ geometry.type = "Polygon"
  /\ Len(geometry.coordinates) = 2
  /\ NumCoordinates(geometry) = 2
  /\ simplified_geometry.type = geometry.type
  /\ simplified_geometry.coordinates = geometry.coordinates

(***************************************************************************)
(* C11  Idempotence of truncation: truncating a geometry that               *)
(* truncate_coordinates returned, of any of the six types, returns it       *)
(* unchanged (same type, same coordinates) and does not raise.              *)
(***************************************************************************)
C11_TruncationIdempotent ==
  TruncationApplied =>
    /\ ~truncate_coordinates_raises(truncated_geometry)
    /\ truncate_coordinates(truncated_geometry).type = truncated_geometry.type
    /\ truncate_coordinates(truncated_geometry).coordinates = truncated_geometry.coordinates

\* a MultiPolygon whose coordinates the first truncation changed
C11_Witness ==
  /\ TruncationApplied
  /\ simplified_geometry.type = "MultiPolygon"
  /\ truncated_geometry.coordinates # simplified_geometry.coordinates
  /\ truncate_coordinates(truncated_geometry).coordinates = truncated_geometry.coordinates

(***************************************************************************)
(* C12  Truncation preserves shape: the geometry truncate_coordinates       *)
(* returns has the type of the one it was given, the same number of arrays  *)
(* at every level of nesting and the same number of coordinate pairs, each  *)
(* still a pair.                                                            *)
(***************************************************************************)
C12_TruncationPreservesShape ==
  TruncationApplied =>
    /\ truncated_geometry.type = simplified_geometry.type
    /\ SameShape(simplified_geometry.coordinates, truncated_geometry.coordinates,
                 NestingDepth(simplified_geometry.type))
    /\ Len(Leaves(truncated_geometry.coordinates, NestingDepth(truncated_geometry.type)))
         = Len(Leaves(simplified_geometry.coordinates, NestingDepth(simplified_geometry.type)))

\* a MultiPolygon of two polygons, six coordinate pairs or more, whose
\* values changed
C12_Witness ==
  /\ TruncationApplied
  /\ simplified_geometry.type = "MultiPolygon"
  /\ Len(simplified_geometry.coordinates) = 2
  /\ Len(Leaves(simplified_geometry.coordinates, 4)) >= 6
  /\ truncated_geometry.coordinates # simplified_geometry.coordinates
  /\ Len(Leaves(truncated_geometry.coordinates, 4)) = Len(Leaves(simplified_geometry.coordinates, 4))

(***************************************************************************)
(* C13  Truncation rounds to the nearest multiple of 0.00001: every         *)
(* component of the geometry truncate_coordinates returns is a multiple of  *)
(* 10 micro-degrees at most 5 micro-degrees away from the component it was  *)
(* given, and [1.123456, 2.987654] becomes [1.12346, 2.98765].              *)
(***************************************************************************)
C13_RoundsToNearest ==
  TruncationApplied =>
    LET depth == NestingDepth(simplified_geometry.type)
        in == Leaves(simplified_geometry.coordinates, depth)
        out == Leaves(truncated_geometry.coordinates, depth)
    IN /\ Len(out) = Len(in)
       /\ \A k \in DOMAIN in : \A c \in 1..2 :
            /\ out[k][c] % 10 = 0
            /\ Abs(out[k][c] - in[k][c]) <= 5
       /\ (simplified_geometry.type = "Point" /\ simplified_geometry.coordinates = <<1123456, 2987654>>)
            => truncated_geometry.coordinates = <<1123460, 2987650>>

\* the Point [1.123456, 2.987654] was truncated: one component went up,
\* the other down
C13_Witness ==
  /\ TruncationApplied
  /\ simplified_geometry.type = "Point"
  /\ simplified_geometry.coordinates = <<1123456, 2987654>>
  /\ truncated_geometry.coordinates = <<1123460, 2987650>>

(***************************************************************************)
(* C14  An array with zero elements passes through truncation unchanged:    *)
(* whenever truncate_coordinates is given a geometry whose coordinates      *)
(* member is empty or holds an empty array (an empty ring of a Polygon, an  *)
(* empty line of a MultiLineString), it returns the geometry with the same  *)
(* coordinates and raises nothing.                                          *)
(***************************************************************************)
C14_EmptyArrayPassesThrough ==
  (pc \in {"truncated", "IndexError"}
     /\ (simplified_geometry.coordinates = <<>> \/ HasNestedEmptyArray(simplified_geometry))) =>
    /\ pc = "truncated"
    /\ truncated_geometry.type = simplified_geometry.type
    /\ SameShape(simplified_geometry.coordinates, truncated_geometry.coordinates,
                 NestingDepth(simplified_geometry.type))

(***************************************************************************)
(* C15  The type filter keeps order and count: at every turn of the loop   *)
(* of preprocess_geojson, and when it returns, processed_features holds    *)
(* one feature for each input feature dealt with so far whose geometry     *)
(* type the script accepts, in the order of the input: the k-th output     *)
(* carries the id and the simplified, truncated geometry of the k-th       *)
(* accepted input.  Features of other types are absent, and an error is    *)
(* never raised at a feature that is left out.                             *)
(***************************************************************************)
C15_FilterKeepsOrderAndCount ==
  /\ AtLoopHead =>
       LET accepted == SelectSeq(FeaturesDone, LAMBDA f : f.geometry.type \in AcceptedTypes(script))
       IN /\ Len(processed_features) = Len(accepted)
          /\ \A k \in DOMAIN accepted :
               /\ SameId(processed_features[k], accepted[k])
               /\ ~truncate_coordinates_raises(SelectedSimplification(accepted[k].geometry))
               /\ SameGeometry(processed_features[k].geometry,
                               truncate_coordinates(SelectedSimplification(accepted[k].geometry)))
  /\ pc = "IndexError" => feature.geometry.type \in AcceptedTypes(script)

\* consolidate_overlays.py dropped a Point and kept the LineString after it
C15_Witness ==
  /\ PreprocessReturned
  /\ script = "consolidate_overlays"
  /\ Len(data.features) = 2
  /\ data.features[1].geometry.type = "Point"
  /\ data.features[2].geometry.type = "LineString"
  /\ Len(processed_features) = 1
  /\ processed_features[1].geometry.type = "LineString"

(***************************************************************************)
(* C16  preprocess_geojson filters to LineString and Polygon only: every   *)
(* feature of processed_features has a geometry of type LineString or      *)
(* Polygon, and every input feature of another type is left out.           *)
(***************************************************************************)
C16_OnlyLineStringAndPolygon ==
  AtLoopHead =>
    /\ \A k \in DOMAIN processed_features :
         processed_features[k].geometry.type \in {"LineString", "Polygon"}
    /\ Len(processed_features)
         = Len(SelectSeq(FeaturesDone, LAMBDA f : f.geometry.type \in {"LineString", "Polygon"}))

(***************************************************************************)
(* C17  noCompression has top priority: when the layer sets noCompression, *)
(* then for every accepted feature, whatever the strategy tag and the      *)
(* tolerance, the geometry handed to truncation is the input geometry and  *)
(* the output geometry is truncate_coordinates(input geometry), of the     *)
(* same type and with the same number of points; this holds for every      *)
(* feature of processed_features too.                                      *)
(***************************************************************************)
C17_NoCompressionOverrides ==
  no_compression =>
    /\ pc \in {"simplified", "truncated"} => SameGeometry(simplified_geometry, geometry)
    /\ pc = "truncated" =>
         /\ SameGeometry(truncated_geometry, truncate_coordinates(geometry))
         /\ Len(Leaves(truncated_geometry.coordinates, NestingDepth(truncated_geometry.type)))
              = Len(Leaves(geometry.coordinates, NestingDepth(geometry.type)))
    /\ PreprocessReturned =>
         /\ Len(processed_features) = Len(AcceptedFeatures)
         /\ \A k \in DOMAIN AcceptedFeatures :
              SameGeometry(processed_features[k].geometry,
                           truncate_coordinates(AcceptedFeatures[k].geometry))

\* a MultiPolygon under the rectangle strategy, which would have made it a
\* Polygon, came out as a MultiPolygon
C17_Witness ==
  /\ no_compression
  /\ strategy = "rectangle"
  /\ pc = "truncated"
  /\ geometry.type = "MultiPolygon"
  /\ simplify_to_rectangle(geometry, script).type = "Polygon"
  /\ truncated_geometry.type = "MultiPolygon"
  /\ truncated_geometry.coordinates = truncate_coordinates(geometry).coordinates

(***************************************************************************)
(* C18  Terminal pass-through: whenever the policy takes neither the       *)
(* rectangle branch nor the Douglas-Peucker branch for an accepted         *)
(* feature (unknown or missing strategy tag, none, douglas_peucker with    *)
(* tolerance 0 or missing, rectangle on a geometry that is no polygon),    *)
(* no error is raised and the feature is emitted with                      *)
(* truncate_coordinates(input geometry) as its geometry.                   *)
(***************************************************************************)
C18_TerminalPassThrough ==
  (pc \in {"simplified", "truncated", "IndexError"} /\ PassThroughPolicy(geometry)) =>
    /\ pc # "IndexError"
    /\ SameGeometry(simplified_geometry, geometry)
    /\ pc = "truncated" => SameGeometry(truncated_geometry, truncate_coordinates(geometry))

(***************************************************************************)
(* C19  The steps of a feature are filter, simplify, truncate, in that     *)
(* order and never backwards: simplification is run on the input geometry  *)
(* of an accepted feature, truncation on the simplified geometry, so the   *)
(* output geometry is truncate_coordinates(S(input geometry)) for the      *)
(* simplification S the policy selects, and every coordinate component of  *)
(* every emitted feature is a multiple of 0.00001.                         *)
(***************************************************************************)
C19_FilterSimplifyTruncate ==
  /\ [](/\ pc \in {"accepted", "simplified", "truncated"} => geometry.type \in AcceptedTypes(script)
        /\ pc \in {"simplified", "truncated"} =>
             SameGeometry(simplified_geometry, SelectedSimplification(geometry))
        /\ pc = "truncated" =>
             /\ SameGeometry(truncated_geometry, truncate_coordinates(SelectedSimplification(geometry)))
             /\ IsTruncated(truncated_geometry)
        /\ \A k \in DOMAIN processed_features : IsTruncated(processed_features[k].geometry))
  /\ [][/\ pc = "filter" => pc' \in {"filter", "accepted", "returned", "AttributeError"}
        /\ pc = "accepted" => pc' = "simplified"
        /\ pc = "simplified" => pc' \in {"truncated", "IndexError"}
        /\ pc = "truncated" =>
             \/ pc' = "AttributeError" /\ processed_features' = processed_features
             \/ /\ pc' = "filter"
                /\ Len(processed_features') = Len(processed_features) + 1
                /\ SameGeometry(processed_features'[Len(processed_features')].geometry, truncated_geometry)
        /\ pc # "accepted" => simplified_geometry' = simplified_geometry
        /\ pc # "simplified" => truncated_geometry' = truncated_geometry
        /\ pc \in {"filter", "accepted", "simplified"} =>
             Len(processed_features') = Len(processed_features)]_vars

\* a line for which the order matters: simplifying the truncated line
\* would have kept a point that simplifying the input removed
C19_Witness ==
  /\ pc = "truncated"
  /\ ~no_compression
  /\ strategy = "douglas_peucker"
  /\ tolerance > 0
  /\ geometry.type = "LineString"
  /\ truncated_geometry.coordinates = truncate_coordinates(simplify_geometry(geometry, tolerance)).coordinates
  /\ truncated_geometry.coordinates # simplify_geometry(truncate_coordinates(geometry), tolerance).coordinates

(***************************************************************************)
(* C20  Identifier preservation, in both scripts: every feature of         *)
(* processed_features carries the id of its input feature when that has    *)
(* one and has no id when that has none, and this is still so after        *)
(* consolidate_overlays has written the layer metadata and the style into  *)
(* its properties.                                                         *)
(***************************************************************************)
C20_IdPreserved ==
  /\ PreprocessReturned =>
       /\ Len(processed_features) = Len(AcceptedFeatures)
       /\ \A k \in DOMAIN AcceptedFeatures : SameId(processed_features[k], AcceptedFeatures[k])
  /\ pc = "consolidated" =>
       /\ Len(consolidated_features) = Len(AcceptedFeatures)
       /\ \A k \in DOMAIN AcceptedFeatures :
            /\ SameId(consolidated_features[k], AcceptedFeatures[k])
            /\ consolidated_features[k].properties.layer_id = layer_id
            /\ "stroke" \in DOMAIN consolidated_features[k].properties

\* consolidate_overlays.py, after the metadata were written: the first
\* feature still has its id "a", the second still has none
C20_Witness ==
  /\ pc = "consolidated"
  /\ script = "consolidate_overlays"
  /\ Len(consolidated_features) = 2
  /\ "id" \in DOMAIN data.features[1]
  /\ "id" \in DOMAIN consolidated_features[1]
  /\ consolidated_features[1].id = "a"
  /\ "id" \notin DOMAIN data.features[2]
  /\ "id" \notin DOMAIN consolidated_features[2]
  /\ consolidated_features[1].properties.layer_id = layer_id

(***************************************************************************)
(* C21  Property shaping after consolidation.  Every consolidated feature  *)
(* carries layer_id, layer_name, description and the style keys of the     *)
(* layer's rendering with the layer's values.  In consolidate_overlays.py  *)
(* its properties hold nothing else; in preprocess_geojson.py they hold in *)
(* addition every original property under another name, with its original *)
(* value, and nothing else: on a colliding key the layer's value wins.     *)
(***************************************************************************)
C21_PropertyShaping ==
  LayerConsolidated =>
    /\ Len(consolidated_features) = Len(AcceptedFeatures)
    /\ \A k \in DOMAIN AcceptedFeatures :
         LET properties == consolidated_features[k].properties
             original == OriginalProperties(AcceptedFeatures[k])
             style == convert_rendering_to_geojson_style(layer_config.rendering)
         IN /\ properties.layer_id = layer_id
            /\ properties.layer_name = layer_config.name
            /\ properties.description = layer_config.description
            /\ \A key \in DOMAIN style : properties[key] = style[key]
            /\ properties.stroke = layer_config.rendering.lineColor
            /\ script = "consolidate_overlays" => DOMAIN properties = LayerKeys
            /\ script = "preprocess_geojson" =>
                 /\ DOMAIN properties = LayerKeys \cup DOMAIN original
                 /\ \A key \in DOMAIN original \ LayerKeys : properties[key] = original[key]

\* preprocess_geojson.py: the original name is kept, the original layer_id
\* "roads" is replaced by the layer's
C21_Witness ==
  /\ LayerConsolidated
  /\ script = "preprocess_geojson"
  /\ Len(consolidated_features) >= 1
  /\ OriginalProperties(AcceptedFeatures[1]) = [name |-> "Road", layer_id |-> "roads"]
  /\ consolidated_features[1].properties.name = "Road"
  /\ consolidated_features[1].properties.layer_id = layer_id

InputError(file) ==
  \/ ~file.exists
  \/ file.type # "FeatureCollection"
  \/ file.features = 0

\* the run has ended with status 1 at the load of a layer
ExitedAtLoad == pc = "exited" /\ exit_status = <<1>> /\ "exists" \in DOMAIN data

(***************************************************************************)
(* C23  Fail-fast with no partial output: when the load of a layer reports *)
(* an input error (file missing, not a FeatureCollection, no features),    *)
(* the run exits with status 1 and no output file was written during the   *)
(* run, neither the failing overlay's nor an earlier overlay's.            *)
(***************************************************************************)
C23_NoPartialOutput ==
  /\ (pc = "loaded" /\ InputError(data)) => ENABLED LoadFailed /\ ~ENABLED LayerLoaded
  /\ (ExitedAtLoad /\ InputError(data)) => output_files = {}

\* distance <= tol, for a distance and a tolerance
WithinTolerance(distance, tol) == distance.n <= tol * tol * distance.d

(***************************************************************************)
(* C24  Tolerance guarantee: at every tolerance t >= 0, every input point  *)
(* that douglas_peucker removed lies within perpendicular distance t of    *)
(* the line through the nearest retained points before and after it.       *)
(***************************************************************************)
C24_RemovedWithinTolerance ==
  DouglasPeuckerApplied =>
    /\ Len(Out) = Len(In)
    /\ \A i \in DOMAIN In :
         LET kept == KeptIndices(In[i], tolerance)
         IN /\ Out[i] = [m \in DOMAIN kept |-> In[i][kept[m]]]
            /\ \A m \in 1..(Len(kept) - 1) :
                 \A k \in (kept[m] + 1)..(kept[m + 1] - 1) :
                    WithinTolerance(
                      perpendicular_distance(In[i][k], In[i][kept[m]], In[i][kept[m + 1]]),
                      tolerance)

\* at a tolerance above 0, a point off the line of its retained neighbours
\* was removed and another point was kept
C24_Witness ==
  /\ DouglasPeuckerApplied
  /\ tolerance > 0
  /\ \E i \in DOMAIN In :
       LET kept == KeptIndices(In[i], tolerance)
       IN /\ Len(Out[i]) >= 3
          /\ \E m \in 1..(Len(kept) - 1) :
               \E k \in (kept[m] + 1)..(kept[m + 1] - 1) :
                  ~OnAnchorLine(In[i][k], In[i][kept[m]], In[i][kept[m + 1]])

\* The distance of the interior point at position k of points from the
\* anchor, the line from the first to the last point
AnchorDistance(points, k) == perpendicular_distance(points[k], points[1], points[Len(points)])

Interior(points) == 2..(Len(points) - 1)

\* every interior point is within tol of the anchor
InteriorWithinTolerance(points, tol) ==
  \A k \in Interior(points) : WithinTolerance(AnchorDistance(points, k), tol)

\* the first interior position whose distance no other one exceeds
FirstFarthest(points) ==
  CHOOSE k \in Interior(points) :
    /\ \A j \in Interior(points) : ~DistanceGreater(AnchorDistance(points, j), AnchorDistance(points, k))
    /\ \A j \in Interior(points) : j < k => DistanceGreater(AnchorDistance(points, k), AnchorDistance(points, j))

\* every run of consecutive points of a sequence
SubSequences(points) ==
  {SubSeq(points, a, b) : a \in 1..Len(points), b \in 1..Len(points)}

\* one step of douglas_peucker on points obeys the rule
StepRule(points, tol) ==
  IF Len(points) <= 2
    THEN douglas_peucker(points, tol) = points
    ELSE /\ InteriorWithinTolerance(points, tol)
              <=> douglas_peucker(points, tol) = <<points[1], points[Len(points)]>>
         /\ ~InteriorWithinTolerance(points, tol) =>
              LET split == FirstFarthest(points)
                  left == douglas_peucker(SubSeq(points, 1, split), tol)
                  right == douglas_peucker(SubSeq(points, split, Len(points)), tol)
              IN /\ douglas_peucker(points, tol) = left \o Tail(right)
                 /\ left[Len(left)] = points[split]
                 /\ right[1] = points[split]

(***************************************************************************)
(* C25  Step rule of douglas_peucker: a sequence of more than 2 points is  *)
(* collapsed to [start, end] exactly when no interior point is farther     *)
(* from the anchor than the tolerance (a distance equal to the tolerance   *)
(* is within it); otherwise it is split at the first interior index that   *)
(* attains the largest distance, both halves are simplified with the same  *)
(* tolerance and joined with the split point once; a sequence of at most 2 *)
(* points is returned unchanged.  This holds of the sequence handed to     *)
(* douglas_peucker and of every run of consecutive points of it, and of    *)
(* the two scenarios of the specification (in tenths).                     *)
(***************************************************************************)
C25_StepRule ==
  /\ douglas_peucker(<<<<0, 0>>, <<0, 10>>, <<0, 20>>>>, 5) = <<<<0, 0>>, <<0, 20>>>>
  /\ douglas_peucker(<<<<0, 0>>, <<50, 50>>, <<100, 0>>>>, 1) = <<<<0, 0>>, <<50, 50>>, <<100, 0>>>>
  /\ DouglasPeuckerApplied =>
       /\ Len(Out) = Len(In)
       /\ \A i \in DOMAIN In :
            /\ Out[i] = douglas_peucker(In[i], tolerance)
            /\ \A points \in SubSequences(In[i]) : StepRule(points, tolerance)

\* at a tolerance above 0, a line of 4 points was split at the first of two
\* interior points at the same largest distance, and the run from there to
\* the end, whose middle is at distance exactly the tolerance, was collapsed
C25_Witness ==
  /\ DouglasPeuckerApplied
  /\ tolerance > 0
  /\ \E i \in DOMAIN In :
       /\ Len(In[i]) = 4
       /\ ~InteriorWithinTolerance(In[i], tolerance)
       /\ FirstFarthest(In[i]) = 2
       /\ ~DistanceGreater(AnchorDistance(In[i], 2), AnchorDistance(In[i], 3))
       /\ LET right == SubSeq(In[i], 2, 4)
          IN /\ AnchorDistance(right, 2).n = tolerance * tolerance * AnchorDistance(right, 2).d
             /\ douglas_peucker(right, tolerance) = <<In[i][2], In[i][4]>>
       /\ Out[i] = <<In[i][1], In[i][2], In[i][4]>>

\* what simplify_geometry makes of one line or ring taken alone
SimplifiedAlone(ring, tol) ==
  simplify_geometry([type |-> "LineString", coordinates |-> ring], tol).coordinates

(***************************************************************************)
(* C26  simplify_geometry works ring by ring.  The type never changes.  A  *)
(* Polygon or MultiLineString keeps its number of rings or lines, and a    *)
(* MultiPolygon its number of polygons and the number of rings of each;    *)
(* every ring or line of the output is douglas_peucker of the input ring   *)
(* at the same place, which is also what simplify_geometry makes of that   *)
(* ring alone.  A LineString's single sequence is simplified.  A Point, a  *)
(* MultiPoint and a geometry with empty coordinates keep their             *)
(* coordinates.                                                            *)
(***************************************************************************)
C26_RingByRing ==
  DouglasPeuckerApplied =>
    LET in == geometry.coordinates
        out == simplified_geometry.coordinates
    IN /\ simplified_geometry.type = geometry.type
       /\ geometry.type \in {"Polygon", "MultiLineString"} =>
            /\ Len(out) = Len(in)
            /\ \A r \in DOMAIN in :
                 /\ out[r] = douglas_peucker(in[r], tolerance)
                 /\ out[r] = SimplifiedAlone(in[r], tolerance)
       /\ geometry.type = "MultiPolygon" =>
            /\ Len(out) = Len(in)
            /\ \A p \in DOMAIN in :
                 /\ Len(out[p]) = Len(in[p])
                 /\ \A r \in DOMAIN in[p] :
                      /\ out[p][r] = douglas_peucker(in[p][r], tolerance)
                      /\ out[p][r] = SimplifiedAlone(in[p][r], tolerance)
       /\ geometry.type = "LineString" => out = douglas_peucker(in, tolerance)
       /\ (geometry.type \in {"Point", "MultiPoint"} \/ in = <<>>) => out = in

\* a MultiPolygon of two polygons: a ring of the second one was shortened,
\* a ring of the first one with 4 coordinates was kept as it was
C26_Witness ==
  /\ DouglasPeuckerApplied
  /\ geometry.type = "MultiPolygon"
  /\ Len(geometry.coordinates) = 2
  /\ \E r \in DOMAIN geometry.coordinates[1] :
       /\ Len(geometry.coordinates[1][r]) >= 4
       /\ simplified_geometry.coordinates[1][r] = geometry.coordinates[1][r]
  /\ \E r \in DOMAIN geometry.coordinates[2] :
       Len(simplified_geometry.coordinates[2][r]) < Len(geometry.coordinates[2][r])

(***************************************************************************)
(* C27  douglas_peucker terminates: at every tolerance >= 0, every call    *)
(* that recurses splits at an interior index (1 <= max_index <= len - 2),  *)
(* so both recursive calls get a strictly shorter sequence of at least 2   *)
(* points, and the recursion is at most len(P) - 2 calls deep.             *)
(***************************************************************************)
C27_RecursionShortens ==
  DouglasPeuckerApplied =>
    \A i \in DOMAIN In :
      /\ \A points \in Calls(In[i], tolerance) :
           Recurses(points, tolerance) =>
             LET max_index == FindMax(points).max_index
                 left == LeftPart(points, max_index)
                 right == RightPart(points, max_index)
             IN /\ 1 <= max_index
                /\ max_index <= Len(points) - 2
                /\ 2 <= Len(left) /\ Len(left) < Len(points)
                /\ 2 <= Len(right) /\ Len(right) < Len(points)
      /\ RecursionDepth(In[i], tolerance) <= (IF Len(In[i]) > 2 THEN Len(In[i]) - 2 ELSE 0)

\* a line of 4 points for which the recursion is 2 calls deep, the most
\* there can be
C27_Witness ==
  /\ DouglasPeuckerApplied
  /\ \E i \in DOMAIN In :
       /\ Len(In[i]) = 4
       /\ RecursionDepth(In[i], tolerance) = 2
       /\ Out[i] = In[i]

(***************************************************************************)
(* C28  perpendicular_distance is the distance to the infinite line        *)
(* through a and b when a # b: it is 0 for every point collinear with a    *)
(* and b, also beyond the ends of the segment, and douglas_peucker         *)
(* removes such a point (here at tolerance 0); when a = b it is the        *)
(* distance to a, which is 0 for a itself only.                            *)
(***************************************************************************)
C28_DistanceToLine ==
  pc = "simplified" =>
    LET a == geometry.coordinates[1]
        point == geometry.coordinates[2]
        b == geometry.coordinates[3]
    IN /\ (a # b /\ OnAnchorLine(point, a, b)) =>
            /\ perpendicular_distance_is_zero(point, a, b)
            /\ simplified_geometry.coordinates = <<a, b>>
       /\ a = b => (perpendicular_distance_is_zero(point, a, b) <=> point = a)

\* The geometry a script emits for an accepted geometry under the layer's
\* policy: the selected simplification, then the truncation
EmittedGeometry(g, s) ==
  truncate_coordinates(
    IF no_compression THEN g
    ELSE IF strategy = "rectangle" /\ g.type \in {"Polygon", "MultiPolygon"}
      THEN simplify_to_rectangle(g, s)
    ELSE IF strategy = "douglas_peucker" /\ tolerance > 0
      THEN simplify_geometry(g, tolerance)
    ELSE g)

LinesAndPolygonsOnly ==
  \A k \in DOMAIN data.features :
     data.features[k].geometry.type \in {"LineString", "Polygon", "MultiLineString", "MultiPolygon"}

Raised == pc \in {"IndexError", "AttributeError"}

(***************************************************************************)
(* C30  An error raised while a feature is preprocessed (a nested empty    *)
(* coordinate array, a null geometry, in preprocess_geojson.py null        *)
(* properties) is not skipped per feature: the next step is that           *)
(* load_and_preprocess_geojson returns None for the layer, without the     *)
(* loop going on and with nothing of the layer kept; then                  *)
(* consolidate_overlays exits with status 1, and the overlay's file is not *)
(* written.  Whenever features of a layer were consolidated or a file was  *)
(* written, all accepted features of the layer are in it.                  *)
(***************************************************************************)
C30_ErrorFailsWholeLayer ==
  /\ [][Raised => (pc' = "None" /\ index' = index /\ processed_features' = <<>>)]_vars
  /\ [][pc = "None" => (pc' = "exited" /\ exit_status' = <<1>> /\ output_files' = {})]_vars
  /\ []((pc = "None" \/ exit_status = <<1>>) =>
          /\ processed_features = <<>>
          /\ consolidated_features = <<>>
          /\ output_files = {})
  /\ []((consolidated_features # <<>> \/ output_files # {}) =>
          /\ ~Raised
          /\ Len(consolidated_features) = Len(AcceptedFeatures))

\* the first feature of the layer was processed and emitted, the second
\* one has a null geometry: the run has exited with status 1, nothing of
\* the layer is left and no file was written
C30_Witness ==
  /\ pc = "exited"
  /\ exit_status = <<1>>
  /\ Len(data.features) = 2
  /\ index = 2
  /\ IsNone(data.features[2].geometry)
  /\ Len(same_object.emitted) = 1
  /\ processed_features = <<>>
  /\ consolidated_features = <<>>
  /\ output_files = {}

====
